---- MODULE Spec2Model ----
(***************************************************************************)
(* A model of the specification-to-IR compiler of ips-protodesc-code:      *)
(* the Protocol registry, the trait/type system, the expression type       *)
(* checker, the Singleton metaclass and the lowering of the raw model      *)
(* (src/npt/protocol.py, src/npt/parser_quicstructures.py).                *)
(*                                                                         *)
(* Python strings that the code inspects character by character (type and  *)
(* function names) are sequences of one-character strings.  Objects are    *)
(* records carrying an id, so that identity (Python `is`, and the default  *)
(* `==` of classes without __eq__) is equality of ids.                     *)
(*                                                                         *)
(* Each subsystem has its own specification over its own variables; the    *)
(* variables of the other subsystems stay at their initial value.          *)
(***************************************************************************)
EXTENDS Integers, Sequences, FiniteSets, TLC

VARIABLES
    \* ---- Protocol registry (class Protocol) ----
    types,      \* Protocol._types : name -> type object
    pname,      \* Protocol.name (ConstructableType.name of the Protocol)
    pdus,       \* Protocol._pdus : list of names
    nextId,     \* allocator of object identities
    last,       \* the last registry call and how it ended
    nameSets,   \* history: number of set_protocol_name calls that succeeded
    \* ---- type system (class ProtocolType and its subclasses) ----
    objs,       \* the type objects: id -> [kind, traits, methods, parent]
    tlist,      \* the list object that each type object's .traits refers to
    tlast,      \* the last type-system call, its arguments and how it ended
    \* ---- Singleton metaclass ----
    instances,  \* Singleton._instances : class -> instance number (0: absent)
    built,      \* history: instances constructed of each class
    stack,      \* the activations of Singleton.__call__ that are constructing
    recorded,   \* .traits of each primitive type instance: <<class, instance>>
    rets,       \* history: the instances each class's constructor calls returned
    reqs,       \* history: the classes requested from outside
    threads,    \* per thread: its activations of Singleton.__call__, what it got
    \* ---- lowering (class QUICStructureParser) ----
    raw,        \* the ParsedRepresentation: its structs and enums lists
    structs,    \* QUICStructureParser.structs : normalized name -> Struct
    enums,      \* QUICStructureParser.enums : normalized name -> Enum
    lstack,     \* the activations of _process_structure / _process_enum
    driver,     \* process_parsed_representation: its loop, position and outcome
    lhist,      \* history of the lowering, by normalized structure name
    \* ---- name normalization (valid_*_name_convertor) ----
    nm,         \* a name and the results of normalizing it again and again
    \* ---- extraction, phase 1 (class ParsedRepresentation) ----
    doc,        \* the document: the sections of its middle part
    walk,       \* _process_section: its activations, and the lists of successes
    \* ---- extraction, phase 2 (class ParsedRepresentation) ----
    heap,       \* the raw objects: id -> Structure, Field, wrapper, Enum, ...
    parsed,     \* ParsedRepresentation.structs and .enums: lists of ids
    pos         \* _traverse_structures / _traverse_enums: position and locals

regVars == <<types, pname, pdus, nextId, last, nameSets>>
tyVars  == <<objs, tlast>>
derVars == <<tlist>>

singVars == <<instances, built, stack, recorded, rets, reqs, threads>>
lowVars == <<raw, structs, enums, lstack, driver, lhist>>
nameVars == <<nm>>
extVars == <<doc, walk>>
resVars == <<heap, parsed, pos>>
vars == <<regVars, tyVars, derVars, singVars, lowVars, nameVars, extVars, resVars>>

\* what the operations of one part of the program leave alone
notReg  == <<tyVars, derVars, singVars, lowVars, nameVars, extVars, resVars>>
notTy   == <<regVars, derVars, singVars, lowVars, nameVars, extVars, resVars>>
notSing == <<regVars, tyVars, derVars, lowVars, nameVars, extVars, resVars, threads>>
notThr  == <<regVars, tyVars, derVars, lowVars, nameVars, extVars, resVars, stack>>
notLow  == <<pname, pdus, nextId, last, nameSets, tlast, derVars, singVars, raw,
             nameVars, extVars, resVars>>
notName == <<regVars, tyVars, derVars, singVars, lowVars, extVars, resVars>>
notExt  == <<regVars, tyVars, derVars, singVars, lowVars, nameVars, resVars>>
notRes  == <<regVars, tyVars, derVars, singVars, lowVars, nameVars, extVars>>
notDer  == <<regVars, singVars, lowVars, nameVars, extVars, resVars>>

\* no type has been derived from another
DerIdle == tlist = <<>>

\* no name being normalized, no document being read, nothing being resolved
NameIdle == nm = <<>>
ExtIdle  == doc = <<>> /\ walk = <<>>
ResIdle  == heap = <<>> /\ parsed = <<>> /\ pos = <<>>

None == "None"

\* ---------------------------------------------------------------------------
\* Characters and the two name patterns

\* the letters in use, lower case and upper case in the same order
LowerSeq == <<"a", "b", "c", "d", "e", "f", "g", "h", "i", "l", "n", "o", "s", "t", "u", "x", "y">>
UpperSeq == <<"A", "B", "C", "D", "E", "F", "G", "H", "I", "L", "N", "O", "S", "T", "U", "X", "Y">>
Upper == {UpperSeq[i] : i \in 1..Len(UpperSeq)}
Lower == {LowerSeq[i] : i \in 1..Len(LowerSeq)}
Digit == {"1"}
NameChar == Upper \cup Lower \cup Digit \cup {"$", "_"}

\* re.search with a pattern anchored by ^ and $: without re.MULTILINE, `$`
\* matches at the end of the string and also just before one trailing newline.
DollarBody(s) ==
    IF Len(s) > 0 /\ s[Len(s)] = "\n" THEN SubSeq(s, 1, Len(s) - 1) ELSE s

\* TYPE_NAME_REGEX = "^[A-Z][A-Za-z0-9$_]+$"
TYPE_NAME_REGEX(s) ==
    LET b == DollarBody(s)
    IN  /\ Len(b) >= 2
        /\ b[1] \in Upper
        /\ \A i \in 2..Len(b) : b[i] \in NameChar

\* FUNC_NAME_REGEX = "^[a-z][A-Za-z0-9$_]+$"
FUNC_NAME_REGEX(s) ==
    LET b == DollarBody(s)
    IN  /\ Len(b) >= 2
        /\ b[1] \in Lower
        /\ \A i \in 2..Len(b) : b[i] \in NameChar

\* ---------------------------------------------------------------------------
\* Name normalization (parser_quicstructures.py)

Index(seq, c) == CHOOSE i \in 1..Len(seq) : seq[i] = c

\* str.lower / str.upper on one character
ToLower(c) == IF c \in Upper THEN LowerSeq[Index(UpperSeq, c)] ELSE c
ToUpper(c) == IF c \in Lower THEN UpperSeq[Index(LowerSeq, c)] ELSE c

\* str.replace(old, new) for one-character old and new
Replace(s, old, new) == [i \in 1..Len(s) |-> IF s[i] = old THEN new ELSE s[i]]

\* ' '.join(s.split()): runs of whitespace become one space, leading and
\* trailing whitespace goes
RECURSIVE JoinSplit(_, _, _)
JoinSplit(s, i, acc) ==
    IF i > Len(s) THEN acc
    ELSE IF s[i] \in {" ", "\n"} THEN JoinSplit(s, i + 1, acc)
    ELSE IF acc # <<>> /\ i > 1 /\ s[i - 1] \in {" ", "\n"}
         THEN JoinSplit(s, i + 1, acc \o <<" ", s[i]>>)
    ELSE JoinSplit(s, i + 1, Append(acc, s[i]))

\* str.capitalize
Capitalize(s) ==
    [i \in 1..Len(s) |-> IF i = 1 THEN ToUpper(s[i]) ELSE ToLower(s[i])]

\* valid_field_name_convertor (name is not None)
valid_field_name_convertor(name) ==
    LET n1 == IF name[1] \in Digit THEN <<"F">> \o name ELSE name
        n2 == [i \in 1..Len(n1) |-> ToLower(n1[i])]
    IN  Replace(Replace(n2, " ", "_"), "-", "_")

\* valid_type_name_convertor
valid_type_name_convertor(name) ==
    LET n1 == IF name[1] \in Digit THEN <<"T">> \o name ELSE name
        n2 == JoinSplit(Replace(n1, "\n", " "), 1, <<>>)
    IN  Replace(Replace(Capitalize(n2), " ", "_"), "-", "_")

\* ---------------------------------------------------------------------------
\* Name normalization applied to a name, and to its own result

MaxNameLen == 3     \* characters of a name
MaxApply   == 2     \* successive normalizations of one name

\* a lower-case and an upper-case letter, a digit, the separators that the
\* convertors replace, and the white space that split() removes
NameAlphabet == {"a", "B", "1", " ", "-", "\n"}
Names == UNION {[1..n -> NameAlphabet] : n \in 1..MaxNameLen}

\* a call convertor(name): the string it returns, or IndexError, which
\* name[0] raises on the empty string
Call(convertor(_), name) ==
    IF name = <<>> THEN [raised |-> TRUE, v |-> <<>>]
    ELSE [raised |-> FALSE, v |-> convertor(name)]

\* what the next call is given: the name, then the last result
NextArg(results) == IF results = <<>> THEN nm.name ELSE results[Len(results)].v

Callable(results) ==
    /\ Len(results) < MaxApply
    /\ IF results = <<>> THEN TRUE ELSE ~ results[Len(results)].raised

NameInit == \E n \in Names : nm = [name |-> n, type |-> <<>>, field |-> <<>>]

normalize_type ==
    /\ UNCHANGED notName
    /\ Callable(nm.type)
    /\ nm' = [nm EXCEPT !.type = Append(@, Call(valid_type_name_convertor, NextArg(nm.type)))]

normalize_field ==
    /\ UNCHANGED notName
    /\ Callable(nm.field)
    /\ nm' = [nm EXCEPT !.field = Append(@, Call(valid_field_name_convertor, NextArg(nm.field)))]

NameNext == normalize_type \/ normalize_field

\* C15: normalizing a non-empty name twice gives what normalizing it once
\* gives, for type names and for field names.
C15_NormalizationIdempotent ==
    /\ Len(nm.type) >= 2 => nm.type[2] = nm.type[1]
    /\ Len(nm.field) >= 2 => nm.field[2] = nm.field[1]

\* ---------------------------------------------------------------------------
\* Bounds of the registry model

MaxObjects == 2     \* types constructed and offered to add_type
MaxPdus    == 2     \* length of the PDU list
MaxNameSets == 2    \* successful set_protocol_name calls explored

\* ---------------------------------------------------------------------------
\* Protocol registry

DataUnit == <<"D", "a", "t", "a", "U", "n", "i", "t">>

\* names offered to the constructors: well-formed type names, a well-formed
\* function name (malformed as a type name), and a name with a space inside
TypeNames ==
    { DataUnit, <<"A", "b">>, <<"a", "b">>, <<"A", " ", "b">> }

\* the constructable classes; RepresentableKinds are the subclasses of
\* RepresentableType
RepresentableKinds == {"BitString", "Struct"}
InternalKinds      == {"Function", "Context"}
Kinds              == RepresentableKinds \cup InternalKinds

ProtocolNames == {"Protocol", "QUIC", ""}

\* ConstructableType.__init__ : stores the name, nothing else is checked
\* (name is None is excluded by the inputs)
ConstructableType(id, kind, name) == [id |-> id, kind |-> kind, name |-> name]

\* ConstructableType._validate_typename / Function._validate_typename:
\* TRUE when the method would return without raising
validate_typename(t) ==
    IF t.kind = "Function" THEN FUNC_NAME_REGEX(t.name) ELSE TYPE_NAME_REGEX(t.name)

\* Protocol._check_typename : TRUE when it raises ProtocolTypeError
check_typename_never(ts, name) == FALSE

check_typename(ts, name) == name \in DOMAIN ts

\* isinstance(self._types[pdu], RepresentableType)
isRepresentable(t) == t.kind \in RepresentableKinds

Put(f, k, v) == [x \in DOMAIN f \cup {k} |-> IF x = k THEN v ELSE f[x]]

\* Protocol.__init__
RegInit ==
    /\ types = Put(<<>>, DataUnit, ConstructableType(0, "BitString", DataUnit))
    /\ pname = "Protocol"
    /\ pdus = <<>>
    /\ nextId = 1
    /\ last = [op |-> "init", name |-> None, result |-> "ok"]
    /\ nameSets = 0

\* Protocol.set_protocol_name : TRUE when it raises
set_protocol_name_raises(current) == current # "Protocol"

set_protocol_name(n) ==
    /\ UNCHANGED notReg
    /\ nameSets < MaxNameSets
    /\ IF set_protocol_name_raises(pname)
       THEN /\ last' = [op |-> "set_protocol_name", name |-> n,
                        result |-> "ProtocolTypeError"]
            /\ UNCHANGED <<pname, nameSets>>
       ELSE /\ pname' = n
            /\ nameSets' = nameSets + 1
            /\ last' = [op |-> "set_protocol_name", name |-> n, result |-> "ok"]
    /\ UNCHANGED <<types, pdus, nextId>>

\* a type is constructed (fresh identity) and handed to Protocol.add_type
add_type(kind, name) ==
    /\ UNCHANGED notReg
    /\ nextId <= MaxObjects
    /\ nextId' = nextId + 1
    /\ LET new_type == ConstructableType(nextId, kind, name)
       IN  IF check_typename(types, new_type.name)
           THEN /\ last' = [op |-> "add_type", name |-> name,
                            result |-> "ProtocolTypeError"]
                /\ UNCHANGED types
           ELSE /\ types' = Put(types, new_type.name, new_type)
                /\ last' = [op |-> "add_type", name |-> name, result |-> "ok"]
    /\ UNCHANGED <<pname, pdus, nameSets>>

\* the two assertions of Protocol.define_pdu : TRUE when one of them fails
define_pdu_asserts_name_only(ts, pdu) == pdu \notin DOMAIN ts

define_pdu_asserts(ts, pdu) ==
    \/ pdu \notin DOMAIN ts
    \/ ~ isRepresentable(ts[pdu])

define_pdu(pdu) ==
    /\ UNCHANGED notReg
    /\ Len(pdus) < MaxPdus
    /\ IF define_pdu_asserts(types, pdu)
       THEN /\ last' = [op |-> "define_pdu", name |-> pdu,
                        result |-> "AssertionError"]
            /\ UNCHANGED pdus
       ELSE /\ pdus' = Append(pdus, pdu)
            /\ last' = [op |-> "define_pdu", name |-> pdu, result |-> "ok"]
    /\ UNCHANGED <<types, pname, nextId, nameSets>>

\* no Protocol exists (the registry is not in use)
RegIdle ==
    /\ types = <<>>
    /\ pname = ""
    /\ pdus = <<>>
    /\ nextId = 0
    /\ last = [op |-> "none", name |-> None, result |-> "ok"]
    /\ nameSets = 0

RegNext ==
    \/ \E n \in ProtocolNames : set_protocol_name(n)
    \/ \E k \in Kinds, n \in TypeNames : add_type(k, n)
    \/ \E n \in TypeNames : define_pdu(n)

\* ---------------------------------------------------------------------------
\* Claims about the registry

\* C1: add_type with a name already present in the registry raises
\* ProtocolTypeError and leaves the namespace unchanged, so the earlier type
\* stays bound to that name; every type is bound under its own name, so no two
\* registered types share a name.
C1_DuplicateNameRejected ==
    /\ [](\A n \in DOMAIN types : types[n].name = n)
    /\ [][ (last'.op = "add_type" /\ last'.name \in DOMAIN types)
             => (last'.result = "ProtocolTypeError" /\ types' = types) ]_vars
    /\ [][ \A n \in DOMAIN types : n \in DOMAIN types' /\ types'[n] = types[n] ]_vars

\* a duplicate add_type has been rejected
C1_Witness ==
    /\ last.op = "add_type"
    /\ last.result = "ProtocolTypeError"
    /\ last.name \in DOMAIN types

\* C2: every entry of the PDU list names a type present in the namespace that is
\* a RepresentableType; define_pdu with an absent name or with the name of a
\* non-Representable type raises and leaves the PDU list unchanged.
C2_PdusAreRepresentable ==
    /\ [](\A i \in 1..Len(pdus) :
             pdus[i] \in DOMAIN types /\ types[pdus[i]].kind \in RepresentableKinds)
    /\ [][ (/\ last'.op = "define_pdu"
            /\ \/ last'.name \notin DOMAIN types
               \/ types[last'.name].kind \notin RepresentableKinds)
             => (last'.result = "AssertionError" /\ pdus' = pdus) ]_vars

\* a PDU is defined, and define_pdu of a registered non-Representable type has
\* been rejected
C2_Witness ==
    /\ Len(pdus) > 0
    /\ last.op = "define_pdu"
    /\ last.result = "AssertionError"
    /\ last.name \in DOMAIN types

\* C3: set_protocol_name is one-shot: once one call has succeeded, every later
\* call raises and the protocol name keeps the value of the first call, whatever
\* the two names are.
C3_SetNameOneShot ==
    [][ (nameSets >= 1 /\ last'.op = "set_protocol_name")
          => (last'.result = "ProtocolTypeError" /\ pname' = pname) ]_vars

\* C4: every registered type has a well-formed name (TYPE_NAME_REGEX, or
\* FUNC_NAME_REGEX for a Function): constructing or registering a type with a
\* malformed name raises.
C4_RegisteredNamesWellFormed ==
    \A n \in DOMAIN types : validate_typename(types[n])

\* ---------------------------------------------------------------------------
\* Type system: traits, functions, ProtocolType

\* object references: NoneId is Python's None where an object is expected; the
\* three primitive types are the singletons Nothing(), Boolean(), Number()
NoneId   == 0
NothingT == 1
BooleanT == 2
NumberT  == 3

Parameter(n, t) == [param_name |-> n, param_type |-> t]

\* Function.__init__
Function(n, ps, rt) == [name |-> n, parameters |-> ps, return_type |-> rt]

Self == Parameter("self", NoneId)

\* Trait is a frozen dataclass (name, methods) with one instance per class; a
\* trait list holds the trait objects, recorded here by their name
Trait(n, ms) == [name |-> n, methods |-> ms]

Value == Trait("Value", <<
    Function("get", <<Self>>, NoneId),
    Function("set", <<Self, Parameter("value", NoneId)>>, NothingT) >>)

Sized == Trait("Sized", << Function("size", <<Self>>, NumberT) >>)

IndexCollection == Trait("IndexCollection", <<
    Function("get", <<Self, Parameter("index", NumberT)>>, NoneId),
    Function("set", <<Self, Parameter("index", NumberT), Parameter("value", NoneId)>>, NoneId),
    Function("length", <<Self>>, NumberT) >>)

Equality == Trait("Equality", <<
    Function("eq", <<Self, Parameter("other", NoneId)>>, BooleanT),
    Function("ne", <<Self, Parameter("other", NoneId)>>, BooleanT) >>)

Ordinal == Trait("Ordinal", <<
    Function("lt", <<Self, Parameter("other", NoneId)>>, BooleanT),
    Function("le", <<Self, Parameter("other", NoneId)>>, BooleanT),
    Function("gt", <<Self, Parameter("other", NoneId)>>, BooleanT),
    Function("ge", <<Self, Parameter("other", NoneId)>>, BooleanT) >>)

BooleanOps == Trait("BooleanOps", <<
    Function("and", <<Self, Parameter("other", NoneId)>>, BooleanT),
    Function("or",  <<Self, Parameter("other", NoneId)>>, BooleanT),
    Function("not", <<Self>>, BooleanT) >>)

ArithmeticOps == Trait("ArithmeticOps", <<
    Function("plus",     <<Self, Parameter("other", NoneId)>>, NoneId),
    Function("minus",    <<Self, Parameter("other", NoneId)>>, NoneId),
    Function("multiply", <<Self, Parameter("other", NoneId)>>, NoneId),
    Function("divide",   <<Self, Parameter("other", NoneId)>>, NoneId),
    Function("modulo",   <<Self, Parameter("other", NoneId)>>, NoneId),
    Function("pow",      <<Self, Parameter("other", NoneId)>>, NoneId) >>)

NumberRepresentable == Trait("NumberRepresentable", <<
    Function("to_number", <<Self>>, NumberT) >>)

\* x in list
InSeq(x, q) == \E i \in 1..Len(q) : q[i] = x

\* ProtocolType.__init__
\* ProtocolType.__init__; the attributes that the subclasses add (a name, a
\* size, a Struct's fields, constraints and actions, an Enum's variants) are
\* empty until a subclass constructor sets them
ProtocolType(kind, parent) ==
    [kind |-> kind, traits |-> <<>>, methods |-> <<>>, parent |-> parent,
     name |-> <<>>, size |-> [e |-> "None"], fields |-> <<>>,
     constraints |-> <<>>, actions |-> <<>>, variants |-> <<>>]

\* the binding of one trait method to the receiver `self` (lines 277-280)
BindMethod(self, method) ==
    Function(method.name,
             [i \in 1..Len(method.parameters) |->
                 Parameter(method.parameters[i].param_name,
                           IF method.parameters[i].param_type # NoneId
                           THEN method.parameters[i].param_type ELSE self)],
             IF method.return_type # NoneId THEN method.return_type ELSE self)

\* the loop `for method in trait.methods` from method i on; raises at the first
\* method whose name is already in the table, keeping what was bound before it
RECURSIVE BindMethods(_, _, _, _)
BindMethods(o, self, ms, i) ==
    IF i > Len(ms) THEN [obj |-> o, raised |-> FALSE]
    ELSE IF ms[i].name \in DOMAIN o.methods THEN [obj |-> o, raised |-> TRUE]
    ELSE BindMethods([o EXCEPT !.methods = Put(@, ms[i].name, BindMethod(self, ms[i]))],
                     self, ms, i + 1)

\* `if trait in self.traits` (line 269)
already_implements_skipped(o, trait) == FALSE

already_implements(o, trait) == InSeq(trait.name, o.traits)

\* ProtocolType.implement_trait on the object o whose identity is self:
\* the object afterwards, and whether ProtocolTypeError was raised
implement_trait_rebinding(o, self, trait) ==
    [obj |-> [o EXCEPT !.traits = Append(@, trait.name),
                       !.methods = [n \in DOMAIN o.methods
                                       \cup {trait.methods[i].name : i \in 1..Len(trait.methods)} |->
                                    IF \E i \in 1..Len(trait.methods) : trait.methods[i].name = n
                                    THEN BindMethod(self, CHOOSE m \in {trait.methods[i] : i \in 1..Len(trait.methods)} : m.name = n)
                                    ELSE o.methods[n]]],
     raised |-> FALSE]

implement_trait(o, self, trait) ==
    IF already_implements(o, trait)
    THEN [obj |-> o, raised |-> TRUE]
    ELSE BindMethods([o EXCEPT !.traits = Append(@, trait.name)], self, trait.methods, 1)

\* the value of implement_trait when no error is expected (constructors)
Implemented(o, self, trait) == implement_trait(o, self, trait).obj

\* dict.get(method_name, None) yields this when the name is absent
NoMethod == Function("None", <<>>, NoneId)

\* ProtocolType.get_method: the while loop, entered with method = None at
\* current_type; NoMethod as the value stands for the ProtocolTypeError raised
\* after the loop
RECURSIVE get_method_loop(_, _, _)
get_method_loop(os, current_type, method_name) ==
    LET method == IF method_name \in DOMAIN os[current_type].methods
                  THEN os[current_type].methods[method_name] ELSE NoMethod
    IN  IF os[current_type].parent # NoneId
        THEN IF method = NoMethod
             THEN get_method_loop(os, os[current_type].parent, method_name)
             ELSE method
        ELSE method

get_method_receiver_only(os, self, method_name) ==
    IF method_name \in DOMAIN os[self].methods
    THEN os[self].methods[method_name] ELSE NoMethod

get_method(os, self, method_name) == get_method_loop(os, self, method_name)

\* ProtocolType.is_a: obj in [self.parent, self.parent.parent, ...]
RECURSIVE is_a(_, _, _)
is_a(os, self, obj) ==
    IF self = NoneId \/ os[self].parent = NoneId THEN FALSE
    ELSE os[self].parent = obj \/ is_a(os, os[self].parent, obj)

\* Function.is_method
is_method(f, self_type) ==
    /\ f.parameters[1].param_name = "self"
    /\ f.parameters[1].param_type = self_type

\* Function.is_method_accepting: zip() pairs the parameters after self with the
\* arguments and stops at the shorter of the two
is_method_accepting(os, f, self_type, arguments) ==
    /\ is_method(f, self_type)
    /\ LET ps == Tail(f.parameters)
           n  == IF Len(ps) < Len(arguments) THEN Len(ps) ELSE Len(arguments)
       IN  \A i \in 1..n :
             LET ptype == IF ps[i].param_type # NoneId THEN ps[i].param_type ELSE self_type
                 a     == arguments[i]
             IN  /\ ps[i].param_name = a.arg_name
                 /\ ~ ( /\ ptype # a.arg_type
                        /\ a.arg_type # NoneId
                        /\ ~ is_a(os, a.arg_type, ptype) )

\* Function.get_return_type
get_return_type(f) == IF f.return_type = NoneId THEN NothingT ELSE f.return_type

\* a type error as the value of a result-type computation
TypeError == -1

\* MethodInvocationExpression.result_type once the target's result type
\* `result` and the Arguments are known
method_result_type(os, result, method_name, args) ==
    IF result = NoneId THEN TypeError
    ELSE LET method == get_method(os, result, method_name)
         IN  IF method = NoMethod THEN TypeError
             ELSE IF ~ is_method_accepting(os, method, result, args) THEN TypeError
             ELSE get_return_type(method)

\* Boolean.__post_init__, Number.__post_init__, Nothing.__init__ with the
\* canonical singletons
PrimitiveObjs ==
    LET nothing == Implemented(ProtocolType("Nothing", NoneId), NothingT, Sized)
        boolean == Implemented(Implemented(Implemented(
                       ProtocolType("Boolean", NoneId), BooleanT, Value),
                       BooleanT, Equality), BooleanT, BooleanOps)
        number  == Implemented(Implemented(Implemented(Implemented(
                       ProtocolType("Number", NoneId), NumberT, Value),
                       NumberT, Equality), NumberT, Ordinal), NumberT, ArithmeticOps)
    IN  <<nothing, boolean, number>>

\* bounds of the type-system model
MaxUserTypes  == 2      \* types constructed besides the primitives
MaxImplements == 2      \* implement_trait calls

\* the traits and method names offered to the calls, and the receivers: the
\* types constructed by new_type (the primitives stay as constructed)
UserTraits  == {Sized, Value, IndexCollection}
MethodNames == {"get", "size", "eq"}
UserTypes   == {t \in DOMAIN objs : t > Len(PrimitiveObjs)}

NoCall == [op |-> "none", self |-> NoneId, name |-> "", args |-> <<>>,
           raised |-> FALSE, value |-> NoneId, implements |-> 0]

\* no type object exists (the type system is not in use)
TyIdle ==
    /\ objs = <<>>
    /\ tlast = NoCall

\* the primitive types exist
TyInit ==
    /\ objs = PrimitiveObjs
    /\ tlast = NoCall

\* ProtocolType(parent = p): a new type object
new_type(p) ==
    /\ UNCHANGED notTy
    /\ Len(objs) < Len(PrimitiveObjs) + MaxUserTypes
    /\ objs' = Append(objs, ProtocolType("ProtocolType", p))
    /\ tlast' = [NoCall EXCEPT !.op = "new_type", !.self = Len(objs) + 1,
                               !.implements = tlast.implements]

\* t.implement_trait(trait)
do_implement_trait(t, trait) ==
    /\ UNCHANGED notTy
    /\ tlast.implements < MaxImplements
    /\ LET r == implement_trait(objs[t], t, trait)
       IN  /\ objs' = [objs EXCEPT ![t] = r.obj]
           /\ tlast' = [NoCall EXCEPT !.op = "implement_trait", !.self = t,
                                      !.name = trait.name, !.raised = r.raised,
                                      !.implements = tlast.implements + 1]

\* t.get_method(m)
do_get_method(t, m) ==
    /\ UNCHANGED notTy
    /\ LET r == get_method(objs, t, m)
       IN  tlast' = [NoCall EXCEPT !.op = "get_method", !.self = t, !.name = m,
                                   !.raised = (r = NoMethod), !.value = r,
                                   !.implements = tlast.implements]
    /\ UNCHANGED objs

TyNext ==
    \/ \E p \in {NoneId, NumberT} \cup UserTypes : new_type(p)
    \/ \E t \in UserTypes, trait \in UserTraits : do_implement_trait(t, trait)
    \/ \E t \in UserTypes, m \in MethodNames : do_get_method(t, m)

\* Argument(arg_name, arg_type, arg_value); the value plays no part in typing
Argument(n, t) == [arg_name |-> n, arg_type |-> t]

\* the arguments offered to a method invocation: none, one, or one followed by
\* a second
InvokeNames == {"eq", "get"}
ArgTypes    == {NoneId, NumberT} \cup UserTypes
Arguments   == {Argument(n, t) : n \in {"other", "value"}, t \in ArgTypes}
ArgLists    == {<<>>} \cup {<<a>> : a \in Arguments}
                      \cup {<<a, Argument("value", NumberT)>> : a \in Arguments}

\* MethodInvocationExpression(target, m, args).result_type where the target
\* expression has result type t and the argument expressions have the types
\* of args
do_result_type(t, m, args) ==
    /\ UNCHANGED notTy
    /\ LET r == method_result_type(objs, t, m, args)
       IN  tlast' = [NoCall EXCEPT !.op = "result_type", !.self = t, !.name = m,
                                   !.args = args, !.raised = (r = TypeError),
                                   !.value = r, !.implements = tlast.implements]
    /\ UNCHANGED objs

InvokeNext ==
    \/ \E p \in {NoneId, NumberT} \cup UserTypes : new_type(p)
    \/ \E t \in UserTypes, trait \in UserTraits : do_implement_trait(t, trait)
    \/ \E t \in {NumberT} \cup UserTypes, m \in InvokeNames, args \in ArgLists :
          do_result_type(t, m, args)

\* ---------------------------------------------------------------------------
\* Claims about the type system

TraitNamed(n) == CHOOSE tr \in UserTraits : tr.name = n
TraitMethodNames(tr) == {tr.methods[i].name : i \in 1..Len(tr.methods)}

\* C5: implement_trait raises when the type already implements the trait, and
\* when a method name of the trait is already in the type's method table; no
\* trait occurs twice in a trait list, and a method name once bound is never
\* bound again by another trait.
C5_TraitImplementedOnce ==
    /\ [](\A t \in DOMAIN objs : \A i, j \in 1..Len(objs[t].traits) :
             objs[t].traits[i] = objs[t].traits[j] => i = j)
    /\ [][ (/\ tlast'.op = "implement_trait"
            /\ \/ InSeq(tlast'.name, objs[tlast'.self].traits)
               \/ TraitMethodNames(TraitNamed(tlast'.name))
                    \cap DOMAIN objs[tlast'.self].methods # {})
             => tlast'.raised ]_vars
    /\ [][ \A t \in DOMAIN objs : \A m \in DOMAIN objs[t].methods :
             m \in DOMAIN objs'[t].methods /\ objs'[t].methods[m] = objs[t].methods[m] ]_vars

\* a type that implements Value was asked to implement IndexCollection, whose
\* get and set collide, and the call raised
C5_Witness ==
    /\ tlast.op = "implement_trait"
    /\ tlast.name = "IndexCollection"
    /\ tlast.raised
    /\ InSeq("Value", objs[tlast.self].traits)

\* the chain self, self.parent, self.parent.parent, ...
RECURSIVE Chain(_, _)
Chain(os, t) == IF t = NoneId THEN <<>> ELSE <<t>> \o Chain(os, os[t].parent)

\* the binding of m in the nearest type of the chain that has one
Nearest(os, t, m) ==
    LET c       == Chain(os, t)
        holders == {i \in 1..Len(c) : m \in DOMAIN os[c[i]].methods}
    IN  IF holders = {} THEN NoMethod
        ELSE os[c[CHOOSE i \in holders : \A j \in holders : i <= j]].methods[m]

\* C6: get_method(m) on T returns the method bound in the nearest type of the
\* chain T, T.parent, ... that has m, and raises exactly when none has.
C6_GetMethodNearest ==
    tlast.op = "get_method" =>
        /\ tlast.value = Nearest(objs, tlast.self, tlast.name)
        /\ tlast.raised <=>
             (\A i \in 1..Len(Chain(objs, tlast.self)) :
                 tlast.name \notin DOMAIN objs[Chain(objs, tlast.self)[i]].methods)

\* get_method found the method in the receiver's parent, which shadows the
\* binding of the same name in the grandparent
C6_Witness ==
    /\ tlast.op = "get_method"
    /\ Len(Chain(objs, tlast.self)) = 3
    /\ LET c == Chain(objs, tlast.self)
       IN  /\ tlast.name \notin DOMAIN objs[c[1]].methods
           /\ tlast.name \in DOMAIN objs[c[2]].methods
           /\ tlast.name \in DOMAIN objs[c[3]].methods
           /\ tlast.value = objs[c[2]].methods[tlast.name]
           /\ tlast.value # objs[c[3]].methods[tlast.name]

\* C7: result_type of a method invocation raises a type error whenever the
\* arguments do not match the resolved method's non-self parameters
\* positionally (another number of arguments, another name at some position,
\* or a type neither equal to nor a subtype of the parameter type), and
\* otherwise returns the method's return type.
C7_InvocationChecksArguments ==
    (tlast.op = "result_type" /\ Nearest(objs, tlast.self, tlast.name) # NoMethod) =>
        LET method   == Nearest(objs, tlast.self, tlast.name)
            ps       == Tail(method.parameters)
            mismatch ==
                \/ Len(tlast.args) # Len(ps)
                \/ \E i \in 1..Len(ps) :
                      \/ tlast.args[i].arg_name # ps[i].param_name
                      \/ /\ tlast.args[i].arg_type # ps[i].param_type
                         /\ ~ is_a(objs, tlast.args[i].arg_type, ps[i].param_type)
        IN  IF mismatch THEN tlast.raised
            ELSE ~ tlast.raised /\ tlast.value = method.return_type

\* C25: a method bound only on an ancestor is usable on a descendant: when the
\* receiver T has no binding of m itself, some type of T's parent chain has
\* one, and the arguments match the parameters after self of the nearest
\* binding (same number, same names, each type equal to or a subtype of the
\* parameter type), result_type of the invocation on a T-typed target raises
\* no type error and is the method's return type.
C25_InheritedMethodUsable ==
    ( /\ tlast.op = "result_type"
      /\ tlast.name \notin DOMAIN objs[tlast.self].methods
      /\ Nearest(objs, tlast.self, tlast.name) # NoMethod ) =>
        LET method  == Nearest(objs, tlast.self, tlast.name)
            ps      == Tail(method.parameters)
            matches ==
                /\ Len(tlast.args) = Len(ps)
                /\ \A i \in 1..Len(ps) :
                      /\ tlast.args[i].arg_name = ps[i].param_name
                      /\ \/ tlast.args[i].arg_type = ps[i].param_type
                         \/ is_a(objs, tlast.args[i].arg_type, ps[i].param_type)
        IN  matches => ~ tlast.raised /\ tlast.value = method.return_type

\* ---------------------------------------------------------------------------
\* Expressions and their result types

NoExpr == [e |-> "None"]

ConstantExpression(t, v)  == [e |-> "Constant", constant_type |-> t, constant_value |-> v]
SelfExpression            == [e |-> "Self"]
FieldAccessExpression(target, f) ==
    [e |-> "FieldAccess", target |-> target, field_name |-> f]
ArgumentExpression(n, v)  == [arg_name |-> n, arg_value |-> v]
MethodInvocationExpression(target, m, args) ==
    [e |-> "MethodInvocation", target |-> target, method_name |-> m, arg_exprs |-> args]
IfElseExpression(c, t, f) ==
    [e |-> "IfElse", condition |-> c, if_true |-> t, if_false |-> f]

\* StructField(field_name, field_type, is_present)
StructField(n, t, p) == [field_name |-> n, field_type |-> t, is_present |-> p]

\* Struct.field: the field of that name, or raises (HasField is FALSE)
HasField(o, n) == \E i \in 1..Len(o.fields) : o.fields[i].field_name = n
FieldOf(o, n)  == o.fields[CHOOSE i \in 1..Len(o.fields) : o.fields[i].field_name = n]

\* Expression.result_type(containing_type): the type object, NoneId where the
\* code yields None, TypeError where it raises ProtocolTypeError
RECURSIVE result_type(_, _, _)
result_type(os, expr, containing_type) ==
    CASE expr.e = "Constant" -> expr.constant_type
      [] expr.e = "Self" ->
            IF containing_type = NoneId THEN TypeError ELSE containing_type
      [] expr.e = "FieldAccess" ->
            LET t == result_type(os, expr.target, containing_type)
            IN  IF t = TypeError \/ t = NoneId THEN TypeError
                ELSE IF os[t].kind # "Struct" THEN TypeError
                ELSE IF ~ HasField(os[t], expr.field_name) THEN TypeError
                ELSE FieldOf(os[t], expr.field_name).field_type
      [] expr.e = "MethodInvocation" ->
            LET atypes == [i \in 1..Len(expr.arg_exprs) |->
                             result_type(os, expr.arg_exprs[i].arg_value, containing_type)]
                args   == [i \in 1..Len(expr.arg_exprs) |->
                             Argument(expr.arg_exprs[i].arg_name, atypes[i])]
            IN  IF \E i \in 1..Len(atypes) : atypes[i] = TypeError THEN TypeError
                ELSE LET result == result_type(os, expr.target, containing_type)
                     IN  IF result = TypeError THEN TypeError
                         ELSE method_result_type(os, result, expr.method_name, args)
      [] expr.e = "IfElse" ->
            LET c == result_type(os, expr.condition, containing_type)
            IN  IF c = TypeError THEN TypeError
                ELSE IF c # BooleanT THEN TypeError
                ELSE LET a == result_type(os, expr.if_true, containing_type)
                         b == result_type(os, expr.if_false, containing_type)
                     IN  IF a = TypeError \/ b = TypeError \/ a # b THEN TypeError
                         ELSE a

\* ---------------------------------------------------------------------------
\* Representable, constructable types

\* RepresentableType.__init__ after ConstructableType.__init__
RepresentableType(kind, self, name, size) ==
    Implemented([ProtocolType(kind, NoneId) EXCEPT !.name = name, !.size = size],
                self, Sized)

\* BitString.__init__
BitString(self, name, size) ==
    Implemented(Implemented(Implemented(
        RepresentableType("BitString", self, name, size),
        self, Value), self, Equality), self, NumberRepresentable)

\* Struct.add_field: TRUE when it raises
add_field_raises(o, field) ==
    \/ HasField(o, field.field_name)
    \/ ~ FUNC_NAME_REGEX(field.field_name)

\* Struct.add_constraint / Struct.add_action: TRUE when the call raises, by
\* result_type raising or by the comparison with Boolean() / Nothing()
add_constraint_raises_on_error_only(os, self, constraint) ==
    result_type(os, constraint, self) = TypeError

add_constraint_raises(os, self, constraint) ==
    result_type(os, constraint, self) # BooleanT

add_action_raises(os, self, action) ==
    result_type(os, action, self) # NothingT

\* the three loops of Struct.__init__ from element i on: the objects
\* afterwards and whether one of the calls raised
RECURSIVE add_fields(_, _, _, _)
add_fields(os, self, fields, i) ==
    IF i > Len(fields) THEN [os |-> os, raised |-> FALSE]
    ELSE IF add_field_raises(os[self], fields[i]) THEN [os |-> os, raised |-> TRUE]
    ELSE add_fields([os EXCEPT ![self].fields = Append(@, fields[i])], self, fields, i + 1)

RECURSIVE add_constraints(_, _, _, _)
add_constraints(os, self, constraints, i) ==
    IF i > Len(constraints) THEN [os |-> os, raised |-> FALSE]
    ELSE IF add_constraint_raises(os, self, constraints[i]) THEN [os |-> os, raised |-> TRUE]
    ELSE add_constraints([os EXCEPT ![self].constraints = Append(@, constraints[i])],
                         self, constraints, i + 1)

RECURSIVE add_actions(_, _, _, _)
add_actions(os, self, actions, i) ==
    IF i > Len(actions) THEN [os |-> os, raised |-> FALSE]
    ELSE IF add_action_raises(os, self, actions[i]) THEN [os |-> os, raised |-> TRUE]
    ELSE add_actions([os EXCEPT ![self].actions = Append(@, actions[i])],
                     self, actions, i + 1)

\* Struct.__init__: the new object gets the next identity; when a step raises
\* the constructor raises and no object comes into being
Struct(os, name, fields, constraints, actions) ==
    LET self == Len(os) + 1
        os0  == Append(os, RepresentableType("Struct", self, name, NoExpr))
        r1   == add_fields(os0, self, fields, 1)
        r2   == add_constraints(r1.os, self, constraints, 1)
        r3   == add_actions(r2.os, self, actions, 1)
        r4   == implement_trait(r3.os[self], self, Equality)
    IN  IF r1.raised \/ r2.raised \/ r3.raised \/ r4.raised
        THEN [os |-> os, raised |-> TRUE]
        ELSE [os |-> [r3.os EXCEPT ![self] = r4.obj], raised |-> FALSE]

\* ---------------------------------------------------------------------------
\* The Struct model: one BitString and the primitives as field types

MaxStructs     == 1     \* Struct objects constructed
MaxConstraints == 1     \* length of a constraints list
MaxActions     == 1     \* length of an actions list

Bits == Len(PrimitiveObjs) + 1     \* the identity of the BitString of StructInit

StructNames == { <<"A", "b">> }

Field_ab == StructField(<<"a", "b">>, Bits, NoExpr)
Field_Ab == StructField(<<"A", "b">>, Bits, NoExpr)        \* malformed field name
StructFields == {Field_ab, Field_Ab}
FieldLists   == {<<>>, <<Field_ab>>, <<Field_Ab>>, <<Field_ab, Field_ab>>}

to_number(f) ==
    MethodInvocationExpression(FieldAccessExpression(SelfExpression, f), "to_number", <<>>)

\* the expressions offered as constraints and actions
Exprs ==
    { ConstantExpression(BooleanT, 1),
      to_number(<<"a", "b">>),
      MethodInvocationExpression(to_number(<<"a", "b">>), "eq",
          <<ArgumentExpression("other", ConstantExpression(NumberT, 1))>>),
      MethodInvocationExpression(SelfExpression, "eq",
          <<ArgumentExpression("other", SelfExpression)>>),
      MethodInvocationExpression(FieldAccessExpression(SelfExpression, <<"a", "b">>), "set",
          <<ArgumentExpression("value", FieldAccessExpression(SelfExpression, <<"a", "b">>))>>) }

ExprLists == {<<>>} \cup {<<x>> : x \in Exprs}

StructInit ==
    /\ objs = Append(PrimitiveObjs, BitString(Bits, <<"A", "b", "_", "a", "b">>, NoExpr))
    /\ tlast = NoCall

StructObjs == {s \in DOMAIN objs : objs[s].kind = "Struct"}

\* Struct(name, fields, constraints, actions)
new_struct(name, fields, constraints, actions) ==
    /\ UNCHANGED notTy
    /\ Cardinality(StructObjs) < MaxStructs
    /\ LET r == Struct(objs, name, fields, constraints, actions)
       IN  /\ objs' = r.os
           /\ tlast' = [NoCall EXCEPT !.op = "Struct", !.self = Len(objs) + 1,
                                      !.raised = r.raised]

\* s.add_field(field)
do_add_field(s, field) ==
    /\ UNCHANGED notTy
    /\ IF add_field_raises(objs[s], field)
       THEN /\ tlast' = [NoCall EXCEPT !.op = "add_field", !.self = s, !.raised = TRUE]
            /\ UNCHANGED objs
       ELSE /\ objs' = [objs EXCEPT ![s].fields = Append(@, field)]
            /\ tlast' = [NoCall EXCEPT !.op = "add_field", !.self = s]

\* s.add_constraint(constraint)
do_add_constraint(s, constraint) ==
    /\ UNCHANGED notTy
    /\ IF add_constraint_raises(objs, s, constraint)
       THEN /\ tlast' = [NoCall EXCEPT !.op = "add_constraint", !.self = s,
                                       !.value = constraint, !.raised = TRUE]
            /\ UNCHANGED objs
       ELSE /\ Len(objs[s].constraints) < MaxConstraints
            /\ objs' = [objs EXCEPT ![s].constraints = Append(@, constraint)]
            /\ tlast' = [NoCall EXCEPT !.op = "add_constraint", !.self = s,
                                       !.value = constraint]

\* s.add_action(action)
do_add_action(s, action) ==
    /\ UNCHANGED notTy
    /\ IF add_action_raises(objs, s, action)
       THEN /\ tlast' = [NoCall EXCEPT !.op = "add_action", !.self = s,
                                       !.value = action, !.raised = TRUE]
            /\ UNCHANGED objs
       ELSE /\ Len(objs[s].actions) < MaxActions
            /\ objs' = [objs EXCEPT ![s].actions = Append(@, action)]
            /\ tlast' = [NoCall EXCEPT !.op = "add_action", !.self = s,
                                       !.value = action]

StructNext ==
    \/ \E n \in StructNames, fs \in FieldLists, cs \in ExprLists, as \in ExprLists :
          new_struct(n, fs, cs, as)
    \/ \E s \in StructObjs, f \in StructFields : do_add_field(s, f)
    \/ \E s \in StructObjs, c \in Exprs : do_add_constraint(s, c)
    \/ \E s \in StructObjs, a \in Exprs : do_add_action(s, a)

\* C8: every expression in a Struct's constraints list has result type Boolean
\* and every expression in its actions list has result type Nothing, evaluated
\* with that struct as containing type; add_constraint / add_action with an
\* expression of another result type (or one that does not type-check) raises
\* and leaves both lists unchanged, and so does the constructor, which then
\* yields no Struct.
C8_ConstraintsBooleanActionsNothing ==
    /\ [](\A s \in StructObjs :
            /\ \A i \in 1..Len(objs[s].constraints) :
                  result_type(objs, objs[s].constraints[i], s) = BooleanT
            /\ \A i \in 1..Len(objs[s].actions) :
                  result_type(objs, objs[s].actions[i], s) = NothingT)
    /\ [][ (/\ tlast'.op = "add_constraint"
            /\ result_type(objs, tlast'.value, tlast'.self) # BooleanT)
             => (tlast'.raised /\ objs' = objs) ]_vars
    /\ [][ (/\ tlast'.op = "add_action"
            /\ result_type(objs, tlast'.value, tlast'.self) # NothingT)
             => (tlast'.raised /\ objs' = objs) ]_vars
    /\ [][ (tlast'.op = "Struct" /\ tlast'.raised) => objs' = objs ]_vars

\* a Struct holds a constraint and an action that use its fields, and an
\* add_constraint of a Number-typed expression has just been rejected
C8_Witness ==
    /\ tlast.op = "add_constraint"
    /\ tlast.raised
    /\ tlast.value = to_number(<<"a", "b">>)
    /\ Len(objs[tlast.self].constraints) > 0
    /\ Len(objs[tlast.self].actions) > 0
    /\ objs[tlast.self].constraints[1].e = "MethodInvocation"
    /\ objs[tlast.self].actions[1].e = "MethodInvocation"

\* ---------------------------------------------------------------------------
\* Derived types: copy() of a type object copies its attributes one level
\* deep, so the copy's .traits is the list object of the original; tlist
\* gives each type object the identity of its trait list, and a change of a
\* list shows in every object that refers to it

MaxDerives == 2         \* types derived successfully

\* the name and the lists of extra traits offered to derive_from, and the
\* traits offered to implement_trait afterwards
DeriveNames    == { <<"C", "d">> }
AlsoImplements == {<<>>, <<Ordinal>>, <<IndexCollection>>, <<BooleanOps, Ordinal>>}
DeriveTraits   == {Ordinal, BooleanOps, Sized}

\* t.implement_trait(trait) among objects that may share trait lists:
\* self.traits.append changes the list object, self.methods[...] = ... the
\* receiver's own table
shared_implement_trait(os, tl, t, trait) ==
    LET r == implement_trait(os[t], t, trait)
    IN  [objs   |-> [u \in DOMAIN os |->
                        IF u = t THEN r.obj
                        ELSE IF tl[u] = tl[t] THEN [os[u] EXCEPT !.traits = r.obj.traits]
                        ELSE os[u]],
         raised |-> r.raised]

\* the loop `for trait in also_implements` of derive_from, from trait i on
RECURSIVE also_implements_loop(_, _, _, _, _)
also_implements_loop(os, tl, derived, also_implements, i) ==
    IF i > Len(also_implements) THEN [objs |-> os, raised |-> FALSE]
    ELSE LET r == shared_implement_trait(os, tl, derived, also_implements[i])
         IN  IF r.raised THEN r
             ELSE also_implements_loop(r.objs, tl, derived, also_implements, i + 1)

\* ConstructableType.derive_from: new_type = copy(self), a new name, a copy
\* of the method table, then the extra traits
derive_from(os, tl, self, name, also_implements) ==
    LET derived == Len(os) + 1
        copied   == Append(os, [os[self] EXCEPT !.name = name])
    IN  also_implements_loop(copied, Append(tl, tl[self]), derived, also_implements, 1)

\* a BitString exists, with a trait list of its own
DerInit ==
    /\ objs = Append(PrimitiveObjs, BitString(Bits, <<"A", "b">>, NoExpr))
    /\ tlast = NoCall
    /\ tlist = [t \in 1..(Len(PrimitiveObjs) + 1) |-> t]

\* t.derive_from(name, also_implements); when it raises, the copy is dropped
\* with the activation
do_derive_from(t, name, also_implements) ==
    /\ UNCHANGED notDer
    /\ Len(objs) < Len(PrimitiveObjs) + 1 + MaxDerives
    /\ LET r == derive_from(objs, tlist, t, name, also_implements)
       IN  /\ objs' = IF r.raised THEN SubSeq(r.objs, 1, Len(objs)) ELSE r.objs
           /\ tlist' = IF r.raised THEN tlist ELSE Append(tlist, tlist[t])
           /\ tlast' = [NoCall EXCEPT !.op = "derive_from", !.self = t,
                                      !.raised = r.raised,
                                      !.value = IF r.raised THEN NoneId ELSE Len(objs) + 1,
                                      !.implements = tlast.implements]

\* t.implement_trait(trait) on a derived type or on the type it came from
do_shared_implement_trait(t, trait) ==
    /\ UNCHANGED notDer
    /\ tlast.implements < MaxImplements
    /\ LET r == shared_implement_trait(objs, tlist, t, trait)
       IN  /\ objs' = r.objs
           /\ tlast' = [NoCall EXCEPT !.op = "implement_trait", !.self = t,
                                      !.name = trait.name, !.raised = r.raised,
                                      !.implements = tlast.implements + 1]
    /\ UNCHANGED tlist

DerNext ==
    \/ \E t \in UserTypes, name \in DeriveNames, also_implements \in AlsoImplements :
          do_derive_from(t, name, also_implements)
    \/ \E t \in UserTypes, trait \in DeriveTraits : do_shared_implement_trait(t, trait)

\* the method names of the traits of a trait list
Traits == {Value, Sized, IndexCollection, Equality, Ordinal, BooleanOps,
           ArithmeticOps, NumberRepresentable}
MethodsOfTraits(names) ==
    UNION {TraitMethodNames(tr) : tr \in {x \in Traits : InSeq(x.name, names)}}

\* C26: derive_from leaves the source type unchanged (name, trait list and
\* method table as before the call); implement_trait called afterwards on the
\* derived type or on the source changes no other type's trait list; and in
\* every type the method table is exactly the methods of the traits in its
\* trait list.
C26_DeriveFromLeavesSource ==
    [][ /\ tlast'.op = "derive_from" => objs'[tlast'.self] = objs[tlast'.self]
        /\ tlast'.op = "implement_trait" =>
              \A u \in DOMAIN objs \ {tlast'.self} : objs'[u].traits = objs[u].traits
        /\ tlast'.op \in {"derive_from", "implement_trait"} =>
              \A u \in DOMAIN objs' :
                 DOMAIN objs'[u].methods = MethodsOfTraits(objs'[u].traits) ]_vars

\* C27: implement_trait is all-or-nothing: a call that raises (the trait is
\* already implemented, or one of its method names is already bound) leaves
\* the receiver's trait list and method table as they were, so after every
\* call each type's method table is exactly the methods of the traits in its
\* trait list.
C27_ImplementTraitAllOrNothing ==
    [][ tlast'.op = "implement_trait" =>
          /\ tlast'.raised => objs'[tlast'.self] = objs[tlast'.self]
          /\ \A u \in DOMAIN objs' :
                DOMAIN objs'[u].methods = MethodsOfTraits(objs'[u].traits) ]_vars

\* ---------------------------------------------------------------------------
\* The Singleton metaclass: construction of the trait and primitive-type
\* singletons, one step of Singleton.__call__ at a time

MaxRequests == 2        \* constructor calls made from outside the module

TraitClasses == {"Value", "Sized", "IndexCollection", "Equality", "Ordinal",
                 "BooleanOps", "ArithmeticOps", "NumberRepresentable"}
PrimitiveClasses == {"Nothing", "Boolean", "Number"}
Classes == TraitClasses \cup PrimitiveClasses

\* a constructor call whose result goes into a signature or an expression,
\* and one whose result is handed to self.implement_trait
CallOp(c) == [op |-> "call", cls |-> c]
ImplOp(c) == [op |-> "impl", cls |-> c]

\* the singleton constructor calls that __init__ of each class makes, in
\* evaluation order
InitOps(c) ==
    CASE c = "Value"               -> <<CallOp("Nothing")>>
      [] c = "Sized"               -> <<CallOp("Number")>>
      [] c = "IndexCollection"     -> <<CallOp("Number"), CallOp("Number"), CallOp("Number")>>
      [] c = "Equality"            -> <<CallOp("Boolean"), CallOp("Boolean")>>
      [] c = "Ordinal"             -> <<CallOp("Boolean"), CallOp("Boolean"),
                                        CallOp("Boolean"), CallOp("Boolean")>>
      [] c = "BooleanOps"          -> <<CallOp("Boolean"), CallOp("Boolean"), CallOp("Boolean")>>
      [] c = "ArithmeticOps"       -> <<>>
      [] c = "NumberRepresentable" -> <<CallOp("Number")>>
      [] c = "Nothing"             -> <<CallOp("Number"), ImplOp("Sized")>>
      [] c = "Boolean"             -> <<>>
      [] c = "Number"              -> <<>>

\* the calls that __post_init__ of each class makes
PostOps(c) ==
    CASE c = "Boolean" -> <<ImplOp("Value"), ImplOp("Equality"), ImplOp("BooleanOps")>>
      [] c = "Number"  -> <<ImplOp("Value"), ImplOp("Equality"), ImplOp("Ordinal"),
                            ImplOp("ArithmeticOps")>>
      [] OTHER         -> <<>>

\* an activation of Singleton.__call__ that found cls absent from _instances
Frame(c, k) == [cls |-> c, inst |-> k, phase |-> "init", pc |-> 1]

FrameOps(f) == IF f.phase = "init" THEN InitOps(f.cls) ELSE PostOps(f.cls)

Top == stack[Len(stack)]

Pop(s) == SubSeq(s, 1, Len(s) - 1)

SingInit ==
    /\ instances = [c \in Classes |-> 0]
    /\ built = [c \in Classes |-> 0]
    /\ stack = <<>>
    /\ recorded = <<>>
    /\ rets = [c \in Classes |-> {}]
    /\ reqs = <<>>
    /\ threads = <<>>

\* the singleton machinery is not in use
SingIdle ==
    /\ instances = <<>>
    /\ built = <<>>
    /\ stack = <<>>
    /\ recorded = <<>>
    /\ rets = <<>>
    /\ reqs = <<>>
    /\ threads = <<>>

\* `cls not in cls._instances`: super().__call__ starts to construct instance
\* number built[c] + 1; a type object starts with an empty trait list
construct(c, below) ==
    /\ built' = [built EXCEPT ![c] = @ + 1]
    /\ stack' = Append(below, Frame(c, built[c] + 1))
    /\ recorded' = IF c \in PrimitiveClasses
                   THEN Put(recorded, <<c, built[c] + 1>>, <<>>)
                   ELSE recorded
    /\ UNCHANGED <<instances, rets>>

\* the frame f receives r as the value of its pending call to c and moves on;
\* implement_trait appends the trait to the trait list of the frame's object
resume(f, c, r) ==
    [frame    |-> [f EXCEPT !.pc = @ + 1],
     recorded |-> IF FrameOps(f)[f.pc].op = "impl"
                  THEN [recorded EXCEPT ![<<f.cls, f.inst>>] = Append(@, <<c, r>>)]
                  ELSE recorded]

\* c() called from outside
request(c) ==
    /\ UNCHANGED notSing
    /\ stack = <<>>
    /\ Len(reqs) < MaxRequests
    /\ reqs' = Append(reqs, c)
    /\ IF instances[c] = 0
       THEN construct(c, stack)
       ELSE /\ rets' = [rets EXCEPT ![c] = @ \cup {instances[c]}]
            /\ UNCHANGED <<instances, built, stack, recorded>>

\* the constructor or __post_init__ on top of the stack calls c()
call(c) ==
    /\ UNCHANGED notSing
    /\ stack # <<>>
    /\ Top.pc <= Len(FrameOps(Top))
    /\ FrameOps(Top)[Top.pc].cls = c
    /\ UNCHANGED reqs
    /\ IF instances[c] = 0
       THEN construct(c, stack)
       ELSE LET r == resume(Top, c, instances[c])
            IN  /\ rets' = [rets EXCEPT ![c] = @ \cup {instances[c]}]
                /\ stack' = Append(Pop(stack), r.frame)
                /\ recorded' = r.recorded
                /\ UNCHANGED <<instances, built>>

\* __init__ has returned: cls._instances[cls] = instance
store ==
    /\ UNCHANGED notSing
    /\ stack # <<>>
    /\ Top.phase = "init"
    /\ Top.pc > Len(InitOps(Top.cls))
    /\ instances' = [instances EXCEPT ![Top.cls] = Top.inst]
    /\ stack' = Append(Pop(stack), [Top EXCEPT !.phase = "post", !.pc = 1])
    /\ UNCHANGED <<built, recorded, rets, reqs>>

\* __post_init__ has returned: return cls._instances[cls]
return ==
    /\ UNCHANGED notSing
    /\ stack # <<>>
    /\ Top.phase = "post"
    /\ Top.pc > Len(PostOps(Top.cls))
    /\ LET c == Top.cls
           r == instances[c]
       IN  /\ rets' = [rets EXCEPT ![c] = @ \cup {r}]
           /\ IF Len(stack) = 1
              THEN /\ stack' = <<>>
                   /\ UNCHANGED recorded
              ELSE LET caller == resume(stack[Len(stack) - 1], c, r)
                   IN  /\ stack' = Append(SubSeq(stack, 1, Len(stack) - 2), caller.frame)
                       /\ recorded' = caller.recorded
    /\ UNCHANGED <<instances, built, reqs>>

SingNext ==
    \/ \E c \in Classes : request(c)
    \/ \E c \in Classes : call(c)
    \/ store
    \/ return

\* ---------------------------------------------------------------------------
\* Singleton.__call__ called from several threads: _instances is shared, each
\* thread has its own activations, and a thread may be switched out between
\* any two steps. The threads start after the main thread has called
\* Number() and got its result.

Threads == {"t1", "t2"}

\* the classes the threads ask for: one that exists when they start, and the
\* two that do not
ThreadClasses == {"Number", "IndexCollection", "NumberRepresentable"}

\* the singletons once Number() has returned to the main thread
AfterNumber ==
    [instances |-> [c \in Classes |->
                       IF c \in {"IndexCollection", "NumberRepresentable"} THEN 0 ELSE 1],
     built     |-> [c \in Classes |->
                       IF c \in {"IndexCollection", "NumberRepresentable"} THEN 0
                       ELSE IF c = "Equality" THEN 2 ELSE 1],
     rets      |-> [c \in Classes |->
                       IF c \in {"IndexCollection", "NumberRepresentable"} THEN {}
                       ELSE IF c = "Equality" THEN {1, 2} ELSE {1}],
     recorded  |-> Put(Put(Put(<<>>,
                       <<"Nothing", 1>>, <<<<"Sized", 1>>>>),
                       <<"Boolean", 1>>,
                       <<<<"Value", 1>>, <<"Equality", 2>>, <<"BooleanOps", 1>>>>),
                       <<"Number", 1>>,
                       <<<<"Value", 1>>, <<"Equality", 1>>, <<"Ordinal", 1>>,
                         <<"ArithmeticOps", 1>>>>),
     reqs      |-> <<"Number">>]

\* `cls not in cls._instances`
not_in_instances_always(c) == TRUE

not_in_instances(c) == instances[c] = 0

ThreadInit ==
    /\ instances = AfterNumber.instances
    /\ built = AfterNumber.built
    /\ stack = <<>>
    /\ recorded = AfterNumber.recorded
    /\ rets = AfterNumber.rets
    /\ reqs = AfterNumber.reqs
    /\ threads = [t \in Threads |-> [stack |-> <<>>, got |-> <<>>]]

\* the thread goes on with `frames` as its activations
Switch(t, frames) == threads' = [threads EXCEPT ![t].stack = frames]

\* super().__call__ starts to construct a new instance in thread t
thread_construct(t, c) ==
    /\ built' = [built EXCEPT ![c] = @ + 1]
    /\ Switch(t, Append(threads[t].stack, Frame(c, built[c] + 1)))
    /\ recorded' = IF c \in PrimitiveClasses
                   THEN Put(recorded, <<c, built[c] + 1>>, <<>>)
                   ELSE recorded
    /\ UNCHANGED <<instances, rets>>

\* thread t calls c() from outside the module
thread_request(t, c) ==
    /\ UNCHANGED notThr
    /\ threads[t].stack = <<>>
    /\ Len(reqs) - Len(AfterNumber.reqs) < MaxRequests
    /\ reqs' = Append(reqs, c)
    /\ IF not_in_instances(c)
       THEN thread_construct(t, c)
       ELSE /\ rets' = [rets EXCEPT ![c] = @ \cup {instances[c]}]
            /\ threads' = [threads EXCEPT ![t].got = Append(@, <<c, instances[c]>>)]
            /\ UNCHANGED <<instances, built, recorded>>

\* the constructor or __post_init__ that thread t is running calls c()
thread_call(t, c) ==
    /\ UNCHANGED notThr
    /\ threads[t].stack # <<>>
    /\ LET frames == threads[t].stack
           top    == frames[Len(frames)]
       IN  /\ top.pc <= Len(FrameOps(top))
           /\ FrameOps(top)[top.pc].cls = c
           /\ IF not_in_instances(c)
              THEN thread_construct(t, c)
              ELSE LET r == resume(top, c, instances[c])
                   IN  /\ rets' = [rets EXCEPT ![c] = @ \cup {instances[c]}]
                       /\ Switch(t, Append(Pop(frames), r.frame))
                       /\ recorded' = r.recorded
                       /\ UNCHANGED <<instances, built>>
    /\ UNCHANGED reqs

\* __init__ has returned in thread t: cls._instances[cls] = instance
thread_store(t) ==
    /\ UNCHANGED notThr
    /\ threads[t].stack # <<>>
    /\ LET frames == threads[t].stack
           top    == frames[Len(frames)]
       IN  /\ top.phase = "init"
           /\ top.pc > Len(InitOps(top.cls))
           /\ instances' = [instances EXCEPT ![top.cls] = top.inst]
           /\ Switch(t, Append(Pop(frames), [top EXCEPT !.phase = "post", !.pc = 1]))
    /\ UNCHANGED <<built, recorded, rets, reqs>>

\* __post_init__ has returned in thread t: return cls._instances[cls]
thread_return(t) ==
    /\ UNCHANGED notThr
    /\ threads[t].stack # <<>>
    /\ LET frames == threads[t].stack
           top    == frames[Len(frames)]
           c      == top.cls
           r      == instances[c]
       IN  /\ top.phase = "post"
           /\ top.pc > Len(PostOps(c))
           /\ rets' = [rets EXCEPT ![c] = @ \cup {r}]
           /\ IF Len(frames) = 1
              THEN /\ threads' = [threads EXCEPT ![t].stack = <<>>,
                                                 ![t].got = Append(@, <<c, r>>)]
                   /\ UNCHANGED recorded
              ELSE LET caller == resume(frames[Len(frames) - 1], c, r)
                   IN  /\ Switch(t, Append(SubSeq(frames, 1, Len(frames) - 2), caller.frame))
                       /\ recorded' = caller.recorded
    /\ UNCHANGED <<instances, built, reqs>>

ThreadNext ==
    \E t \in Threads :
        \/ \E c \in ThreadClasses : thread_request(t, c)
        \/ \E c \in Classes : thread_call(t, c)
        \/ thread_store(t)
        \/ thread_return(t)

\* some thread is inside c's constructor and has not stored its instance
Constructing(c) ==
    \E t \in Threads : \E i \in 1..Len(threads[t].stack) :
        /\ threads[t].stack[i].cls = c
        /\ threads[t].stack[i].phase = "init"

\* C24: the check and the store of Singleton.__call__ are separate steps, so
\* two threads that both make the first call of a class can both construct
\* and get distinct instances (C24_Witness); once a class has its instance
\* stored and no thread is still inside its constructor, no step constructs
\* that class again or replaces the stored instance, and every call that
\* returns, from any thread, returns the stored instance
C24_StableOnceConstructed ==
    [][\A c \in Classes :
         (instances[c] # 0 /\ ~Constructing(c))
         => /\ instances'[c] = instances[c]
            /\ built'[c] = built[c]
            /\ rets'[c] \subseteq rets[c] \cup {instances[c]}
            /\ \A t \in Threads :
                 \A i \in 1..Len(threads'[t].got) :
                    (i > Len(threads[t].got) /\ threads'[t].got[i][1] = c)
                    => threads'[t].got[i][2] = instances[c]]_vars

\* both threads made the first call of the same class, construction ran
\* twice, and the two callers hold distinct instances
C24_Witness ==
    \E c \in ThreadClasses :
        /\ AfterNumber.instances[c] = 0
        /\ built[c] = 2
        /\ Len(threads["t1"].got) = 1
        /\ Len(threads["t2"].got) = 1
        /\ threads["t1"].got[1][1] = c
        /\ threads["t2"].got[1][1] = c
        /\ threads["t1"].got[1][2] # threads["t2"].got[1][2]

\* C9: each trait class and each primitive type class has exactly one
\* instance: construction runs at most once per class, every constructor call
\* of a class returns the same object, re-entrant calls included, and once the
\* outermost call has returned the trait object recorded in any type's trait
\* list is the one a later constructor call returns.
C9_OneInstancePerClass ==
    /\ \A c \in DOMAIN built : built[c] <= 1
    /\ \A c \in DOMAIN rets : Cardinality(rets[c]) <= 1
    /\ stack = <<>> =>
          \A o \in DOMAIN recorded : \A i \in 1..Len(recorded[o]) :
              instances[recorded[o][i][1]] = recorded[o][i][2]

\* ---------------------------------------------------------------------------
\* The raw model (parser.py) as the lowering receives it

MaxRawStructs == 3      \* structures in ParsedRepresentation.structs
MaxDepth      == 5      \* nested _process_structure / _process_enum calls

NoKey == "None"

\* sizes and values of a raw Field: an int, None, a Range whose ends are an
\* int or None, or (a size, after phase 2 of the parser) an Enum
IntV(n) == [k |-> "int", v |-> n]
NoneV   == [k |-> "None"]
Range(min, max) == [k |-> "Range", min |-> min, max |-> max]
EnumSize(key)   == [k |-> "Enum", key |-> key]
\* a size that phase 2 resolved by name to the Structure `key`
StructSize(key) == [k |-> "Structure", key |-> key]

Field(name, size, value) ==
    [k |-> "Field", name |-> name, size |-> size, value |-> value, target |-> NoKey]
\* target is the key of the Structure that the container wraps
StructContainer(name, size, target) ==
    [k |-> "StructContainer", name |-> name, size |-> size, value |-> NoneV,
     target |-> target]
\* the target of a wrapper is the Field or the StructContainer it wraps
RepeatingField(target) == [k |-> "RepeatingField", name |-> target.name, inner |-> target]
OptionalField(target)  == [k |-> "OptionalField", name |-> target.name, inner |-> target]
Structure(name, fields) == [name |-> name, fields |-> fields]
EnumValue(name, type)   == [name |-> name, type |-> type]
RawEnum(name, values)   == [name |-> name, values |-> values]


\* the Structure objects that documents are made of: a structure without
\* fields, a second one whose name normalizes like the first's, one that
\* contains the first, one that contains itself, one named like an enum, and
\* the structures of one field (FieldKeys); the structures of a field and its
\* length field, which comes first or second (LengthKeys), and a structure
\* whose name normalizes to the bit string name of that length field; and a
\* structure of one field whose name normalizes like that of "SA"
CoreKeys   == {"SA", "SA2", "SB", "SU", "SI"}
FieldKeys  == {"SD", "SZ", "SR", "SO", "SN", "SE", "SW", "SX", "SS"}
LengthKeys == {"SL", "SF"}
StructKeys == CoreKeys \cup FieldKeys \cup LengthKeys \cup {"SM", "SV"}

\* the one field of a structure of FieldKeys: a literal value, the literal 0,
\* a value range, a value range without max, no value under a size range,
\* a size that is an Enum, wrapped fields of Enum size or a container, and a
\* size that is a Structure
FieldOfKey(key) ==
    CASE key = "SD" -> Field(<<"x", "y">>, IntV(8), IntV(1))
      [] key = "SZ" -> Field(<<"x", "y">>, IntV(8), IntV(0))
      [] key = "SR" -> Field(<<"x", "y">>, Range(NoneV, NoneV), Range(IntV(3), IntV(6)))
      [] key = "SO" -> Field(<<"x", "y">>, IntV(8), Range(IntV(3), NoneV))
      [] key = "SN" -> Field(<<"x", "y">>, Range(NoneV, IntV(20)), NoneV)
      [] key = "SE" -> Field(<<"x", "y">>, EnumSize("EA"), IntV(1))
      [] key = "SW" -> RepeatingField(Field(<<"x", "y">>, EnumSize("EA"), Range(IntV(0), IntV(6))))
      [] key = "SX" -> OptionalField(StructContainer(<<"A", " ", "b">>, IntV(8), "SA"))
      [] key = "SS" -> Field(<<"x", "y">>, StructSize("SA"), NoneV)

\* a length field, and the field whose size phase 2 rebound to it
Field_L  == Field(<<"L">>, IntV(8), NoneV)
Field_xy == Field(<<"x", "y">>, Field_L, NoneV)

RawStructure(key) ==
    CASE key = "SA"  -> Structure(<<"A", " ", "b">>, <<>>)
      [] key = "SA2" -> Structure(<<"a", " ", " ", "b">>, <<>>)
      [] key = "SB"  -> Structure(<<"B", "d">>, <<StructContainer(<<"A", " ", "b">>, IntV(8), "SA")>>)
      [] key = "SU"  -> Structure(<<"U", "n">>, <<StructContainer(<<"U", "n">>, IntV(8), "SU")>>)
      [] key = "SI"  -> Structure(<<"I", "n">>, <<>>)
      [] key \in FieldKeys -> Structure(<<"D", "u">>, <<FieldOfKey(key)>>)
      [] key = "SL"  -> Structure(<<"D", "u">>, <<Field_L, Field_xy>>)
      [] key = "SF"  -> Structure(<<"D", "u">>, <<Field_xy, Field_L>>)
      [] key = "SM"  -> Structure(<<"D", "u", " ", "l">>, <<>>)
      [] key = "SV"  -> Structure(<<"a", "-", "b">>, <<FieldOfKey("SD")>>)

RawEnumOf(key) ==
    CASE key = "EA" -> RawEnum(<<"I", "n">>, <<EnumValue(<<"A", " ", "b">>, "SA"), EnumValue(<<"A", " ", "b">>, "SA")>>)
      [] key = "EB" -> RawEnum(<<"I", "t">>, <<EnumValue(<<"A", " ", "b">>, "SA"), EnumValue(<<"x", "y">>, NoKey)>>)
      [] key = "EC" -> RawEnum(<<"I", "n">>, <<EnumValue(<<"x", "y">>, NoKey)>>)

RawEnumLists == {<<>>, <<"EA">>, <<"EB">>, <<"EA", "EB">>, <<"EC">>, <<"EA", "EC">>}

\* lists without repetition of at most n elements of S
ListsOf(S, n) ==
    UNION {{l \in [1..m -> S] : \A i, j \in 1..m : l[i] = l[j] => i = j} : m \in 0..n}

Elems(seq) == {seq[i] : i \in 1..Len(seq)}

\* _traverse_field: a RepeatingField or an OptionalField is lowered as the
\* field it wraps (a copy of it when that is a Field)
Unwrapped(field) ==
    IF field.k \in {"RepeatingField", "OptionalField"} THEN field.inner ELSE field

\* phase 2 of the parser links a field or an enum value only to a Structure
\* that the representation records
Resolved(rep) ==
    /\ \A s \in Elems(rep.structs) : \A g \in Elems(RawStructure(s).fields) :
          LET f == Unwrapped(g)
          IN  /\ f.k = "StructContainer" => f.target \in Elems(rep.structs)
              /\ (f.k = "Field" /\ f.size.k = "Enum") => f.size.key \in Elems(rep.enums)
              /\ (f.k = "Field" /\ f.size.k = "Structure") =>
                     f.size.key \in Elems(rep.structs)
    /\ \A e \in Elems(rep.enums) : \A v \in Elems(RawEnumOf(e).values) :
          v.type # NoKey => v.type \in Elems(rep.structs)

\* the resolved representations of at most MaxRawStructs structures, at
\* most one of them a structure that has a Field, and "SM" only next to a
\* structure that has a length field
RawModels ==
    {rep \in [structs : ListsOf(StructKeys, MaxRawStructs), enums : RawEnumLists] :
        /\ Resolved(rep)
        /\ Cardinality(Elems(rep.structs) \cap (FieldKeys \cup LengthKeys \cup {"SV"})) <= 1
        /\ "SM" \in Elems(rep.structs) => Elems(rep.structs) \cap LengthKeys # {}}

\* ---------------------------------------------------------------------------
\* Extraction, phase 1 (ParsedRepresentation._parse_structures): the walk
\* over the sections of a document and the parse attempts on its artwork

MaxTop == 2      \* sections in document.middle.content
MaxSub == 2      \* sub-sections of a section

\* the document classes of npt.rfc that the walk reads: a Section has a
\* content list and an optional list of sub-sections, a Figure has a content
\* list, an Artwork has one content, a Text has the literal text
Section(content, sections) == [k |-> "Section", content |-> content, sections |-> sections]
Figure(content)            == [k |-> "Figure", content |-> content]
Artwork(content)           == [k |-> "Artwork", content |-> content]
Text(content)              == [k |-> "Text", content |-> content]

\* an optional list: None, or the list
ListV(seq) == [k |-> "list", v |-> seq]

\* the grammar on a text: "s" is a structure, "e" an enum, "b" matches both
\* productions and "n" neither; a production that does not match raises
grammar_structure(text) ==
    IF text \in {"s", "b"} THEN [k |-> "Structure", text |-> text]
    ELSE [k |-> "raises"]
grammar_enum(text) ==
    IF text \in {"e", "b"} THEN [k |-> "Enum", text |-> text]
    ELSE [k |-> "raises"]

\* content lists: a paragraph and a figure of three artworks; a figure with
\* an artwork that is not text and a figure with a source code block
TopContents ==
    {<<[k |-> "T"],
       Figure(<<Artwork(Text("s")), Artwork(Text("n")), Artwork(Text("e"))>>)>>,
     <<Figure(<<Artwork(Text("b")), Artwork([k |-> "SVG"])>>),
       Figure(<<[k |-> "SourceCode"], Artwork(Text("e"))>>)>>}
LeafContents ==
    {<<Figure(<<Artwork(Text("s"))>>)>>,
     <<Figure(<<Artwork(Text("e")), Artwork(Text("s"))>>)>>}

\* sections without sub-sections, sections, documents
Leaves   == {Section(c, NoneV) : c \in LeafContents}
Sections == {Section(c, subs) : c \in TopContents,
                                subs \in {NoneV} \cup {ListV(l) : l \in ListsOf(Leaves, MaxSub)}}
Docs     == ListsOf(Sections, MaxTop)

\* the section at `path`: path[1] indexes `sections`, the rest the
\* sub-sections below it
RECURSIVE SectionAt(_, _)
SectionAt(sections, path) ==
    IF Len(path) = 1 THEN sections[path[1]]
    ELSE SectionAt(sections[path[1]].sections.v, Tail(path))

\* _process_structure(artwork, parser): the productions it tried and what it
\* returns
process_structure_enum_first(artwork) ==
    IF artwork.content.k = "Text"
    THEN LET text == artwork.content.content
         IN  IF grammar_enum(text).k # "raises"
             THEN [tried |-> <<"enum">>, result |-> grammar_enum(text)]
             ELSE IF grammar_structure(text).k # "raises"
             THEN [tried |-> <<"enum", "structure">>, result |-> grammar_structure(text)]
             ELSE [tried |-> <<"enum", "structure">>, result |-> NoneV]
    ELSE [tried |-> <<>>, result |-> NoneV]

process_structure(artwork) ==
    IF artwork.content.k = "Text"
    THEN LET text == artwork.content.content
         IN  IF grammar_structure(text).k # "raises"
             THEN [tried |-> <<"structure">>, result |-> grammar_structure(text)]
             ELSE IF grammar_enum(text).k # "raises"
             THEN [tried |-> <<"structure", "enum">>, result |-> grammar_enum(text)]
             ELSE [tried |-> <<"structure", "enum">>, result |-> NoneV]
    ELSE [tried |-> <<>>, result |-> NoneV]

\* `for artwork in content.content:` from the a-th element on. w holds the
\* lists structs and enums and the log of the attempts; `at` is where the
\* artwork is: the section's path, the index in its content, the index in the
\* figure
RECURSIVE process_figure(_, _, _, _)
process_figure(w, figure, at, a) ==
    IF a > Len(figure.content) THEN w
    ELSE LET artwork == figure.content[a]
             here    == Append(at, a)
             r       == process_structure(artwork)
             logged  == [w EXCEPT !.tried = @ \o [i \in 1..Len(r.tried) |->
                                                      [at |-> here, production |-> r.tried[i]]]]
             found   == [text |-> r.result.text, at |-> here]
         IN  IF artwork.k # "Artwork" THEN process_figure(w, figure, at, a + 1)
             ELSE process_figure(
                      CASE r.result.k = "Structure" ->
                               [logged EXCEPT !.structs = Append(@, found)]
                        [] r.result.k = "Enum" ->
                               [logged EXCEPT !.enums = Append(@, found)]
                        [] OTHER -> logged,
                      figure, at, a + 1)

\* a call of _process_section on the section at `path`
SectionFrame(path) == [section |-> path, phase |-> "content", c |-> 1, sub |-> 1]

ExtInit ==
    /\ doc \in Docs
    /\ walk = [frames |-> <<>>, i |-> 1, structs |-> <<>>, enums |-> <<>>,
               tried |-> <<>>, done |-> FALSE]

\* _parse_structures: `for section in document.middle.content:`
parse_structures ==
    /\ UNCHANGED notExt
    /\ walk.frames = <<>>
    /\ ~ walk.done
    /\ walk' = IF walk.i <= Len(doc)
               THEN [walk EXCEPT !.frames = <<SectionFrame(<<walk.i>>)>>, !.i = @ + 1]
               ELSE [walk EXCEPT !.done = TRUE]
    /\ UNCHANGED doc

\* _process_section: one round of `for content in section.content:`; a
\* Figure has all its artworks processed, anything else is passed over
process_content ==
    /\ UNCHANGED notExt
    /\ walk.frames # <<>>
    /\ LET n       == Len(walk.frames)
           frame   == walk.frames[n]
           section == SectionAt(doc, frame.section)
       IN  /\ frame.phase = "content"
           /\ walk' =
                IF frame.c > Len(section.content)
                THEN [walk EXCEPT !.frames[n].phase = "sections"]
                ELSE LET content == section.content[frame.c]
                         w == IF content.k = "Figure"
                              THEN process_figure(walk, content,
                                                  <<frame.section, frame.c>>, 1)
                              ELSE walk
                     IN  [w EXCEPT !.frames[n].c = @ + 1]
    /\ UNCHANGED doc

\* _process_section: `if section.sections is not None:` and one round of
\* `for sub_section in section.sections:`, the recursive call; the return
\* when there is nothing left
process_sub_sections ==
    /\ UNCHANGED notExt
    /\ walk.frames # <<>>
    /\ LET n       == Len(walk.frames)
           frame   == walk.frames[n]
           section == SectionAt(doc, frame.section)
       IN  /\ frame.phase = "sections"
           /\ walk' =
                IF section.sections.k = "list" /\ frame.sub <= Len(section.sections.v)
                THEN [walk EXCEPT !.frames = Append([@ EXCEPT ![n].sub = frame.sub + 1],
                                      SectionFrame(Append(frame.section, frame.sub)))]
                ELSE [walk EXCEPT !.frames = SubSeq(@, 1, n - 1)]
    /\ UNCHANGED doc

ExtNext == parse_structures \/ process_content \/ process_sub_sections

\* ---------------------------------------------------------------------------
\* Extraction, phase 2 (ParsedRepresentation._traverse_structures and
\* _traverse_enums) on the objects that phase 1 recorded

MaxParsed == 2      \* structures in ParsedRepresentation.structs

\* a size that is a bare name, and a size (or a target, or a variant type) that
\* is a reference to the object `id`
StrSize(name) == [k |-> "str", v |-> name]
Ref(id)       == [k |-> "ref", id |-> id]

\* the structures as the grammar builds them: fields are Fields or wrapped
\* Fields, sizes are ints, Ranges or names
ParsedKeys == {"PA", "PI", "PC", "PT", "PW", "PL", "PB", "PX", "PE", "PZ"}

Name_A        == <<"A">>
Name_A_Length == <<"A", " ", "L", "e", "n", "g", "t", "h">>

ParsedStructure(key) ==
    CASE key = "PA" -> Structure(<<"S">>, <<Field(Name_A, Range(NoneV, NoneV), NoneV),
                                            Field(Name_A_Length, IntV(8), NoneV)>>)
      [] key = "PI" -> Structure(<<"S">>, <<Field(Name_A, StrSize(<<"i">>), NoneV),
                                            Field(Name_A_Length, IntV(8), NoneV)>>)
      [] key = "PC" -> Structure(<<"S">>, <<Field(<<"B">>, StrSize(<<"i">>), NoneV),
                                            Field(<<"T">>, IntV(8), NoneV)>>)
      [] key = "PT" -> Structure(<<"T">>, <<>>)
      [] key = "PW" -> Structure(<<"U">>, <<RepeatingField(Field(<<"T">>, IntV(8), NoneV)),
                                            OptionalField(Field(<<"T">>, IntV(8), NoneV))>>)
      [] key = "PL" -> Structure(<<"S">>, <<Field(Name_A, Range(NoneV, NoneV), NoneV),
                                            Field(Name_A_Length \o <<" ", "X">>, IntV(8), NoneV)>>)
      [] key = "PB" -> Structure(<<"S">>, <<Field(Name_A, Range(IntV(1), IntV(2)), NoneV),
                                            Field(Name_A_Length, IntV(8), NoneV)>>)
      [] key = "PX" -> Structure(<<"U">>, <<Field(<<"B">>, StrSize(<<"i">>), NoneV),
                                            Field(Name_A, Range(NoneV, NoneV), NoneV)>>)
      [] key = "PE" -> Structure(<<"T">>, <<Field(Name_A_Length, IntV(8), NoneV)>>)
      [] key = "PZ" -> Structure(<<"U">>, <<Field(<<"B">>, StrSize(<<"T">>), NoneV)>>)

\* the enums as the grammar builds them: no value has a type yet
ParsedEnumLists == {<<>>, <<RawEnum(<<"I", "n">>, <<EnumValue(<<"T">>, NoKey),
                                                    EnumValue(<<"Q">>, NoKey)>>)>>}

\* the objects of a field: a Field, or a wrapper and the Field it wraps; the
\* last object is the one the structure's field list holds
FieldObjects(h, field) ==
    IF field.k = "Field"
    THEN <<[k |-> "Field", name |-> field.name, size |-> field.size, value |-> field.value]>>
    ELSE <<[k |-> "Field", name |-> field.inner.name, size |-> field.inner.size,
            value |-> field.inner.value],
           [k |-> field.k, name |-> field.name, target |-> Len(h) + 1]>>

\* the heap after the objects of fields[i..] are added, and their ids
RECURSIVE AddFields(_, _, _, _)
AddFields(h, fields, i, ids) ==
    IF i > Len(fields) THEN [h |-> h, ids |-> ids]
    ELSE LET h2 == h \o FieldObjects(h, fields[i])
         IN  AddFields(h2, fields, i + 1, Append(ids, Len(h2)))

\* the heap and the list of structure ids after the structures keys[i..]
RECURSIVE AddStructures(_, _, _, _)
AddStructures(h, keys, i, ids) ==
    IF i > Len(keys) THEN [h |-> h, ids |-> ids]
    ELSE LET s == ParsedStructure(keys[i])
             r == AddFields(h, s.fields, 1, <<>>)
             o == [k |-> "Structure", name |-> s.name, fields |-> r.ids]
         IN  AddStructures(Append(r.h, o), keys, i + 1, Append(ids, Len(r.h) + 1))

\* the state after phase 1: the recorded objects, and _traverse_structures
\* about to start
ResInit ==
    \E keys \in ListsOf(ParsedKeys, MaxParsed), es \in ParsedEnumLists :
        LET r == AddStructures(<<>>, keys, 1, <<>>)
            e == [i \in 1..Len(es) |->
                     [k |-> "Enum", name |-> es[i].name,
                      values |-> [j \in 1..Len(es[i].values) |->
                                     [name |-> es[i].values[j].name, type |-> 0]]]]
        IN  /\ heap = r.h \o e
            /\ parsed = [keys |-> keys, structs |-> r.ids,
                         enums |-> [i \in 1..Len(es) |-> Len(r.h) + i]]
            /\ pos = [phase |-> "structs", s |-> 1, iter |-> <<>>, f |-> 1,
                      struct |-> 0, fields |-> <<>>, e |-> 1]

\* the first object of ids whose name is `name`, 0 when there is none
Named(ids, name) ==
    LET hits == {i \in 1..Len(ids) : heap[ids[i]].name = name}
    IN  IF hits = {} THEN 0 ELSE ids[CHOOSE i \in hits : \A j \in hits : i <= j]

\* str.lower, and the test `sub in s`
LowerCase(s) == [i \in 1..Len(s) |-> ToLower(s[i])]
Contains(s, sub) ==
    \E i \in 0..(Len(s) - Len(sub)) : SubSeq(s, i + 1, i + Len(sub)) = sub

\* _find_field_length(struct, field): the first Field of struct.fields that
\* does not compare equal to field and whose lower-case name contains the
\* lower-case name of field and ' length'; 0 for None
find_field_length(struct, field) ==
    LET ids  == heap[struct].fields
        hits == {i \in 1..Len(ids) :
                    /\ heap[ids[i]].k = "Field"
                    /\ heap[ids[i]] # heap[field]
                    /\ Contains(LowerCase(heap[ids[i]].name), LowerCase(heap[field].name))
                    /\ Contains(LowerCase(heap[ids[i]].name),
                                <<" ", "l", "e", "n", "g", "t", "h">>)}
    IN  IF hits = {} THEN 0 ELSE ids[CHOOSE i \in hits : \A j \in hits : i <= j]

\* `for struct in self.structs:` of _traverse_structures, and the start of
\* `for field in struct.fields:`
begin_structure ==
    /\ UNCHANGED notRes
    /\ pos.phase = "structs"
    /\ pos' = IF pos.s <= Len(parsed.structs)
              THEN [pos EXCEPT !.phase = "fields", !.struct = parsed.structs[pos.s],
                               !.iter = heap[parsed.structs[pos.s]].fields,
                               !.f = 1, !.fields = <<>>]
              ELSE [pos EXCEPT !.phase = "enums"]
    /\ UNCHANGED <<heap, parsed>>

\* `struct.fields = fields` after the loop over the fields, with whatever
\* `struct` is bound to by then
end_structure ==
    /\ UNCHANGED notRes
    /\ pos.phase = "fields"
    /\ pos.f > Len(pos.iter)
    /\ heap' = [heap EXCEPT ![pos.struct].fields = pos.fields]
    /\ pos' = [pos EXCEPT !.phase = "structs", !.s = @ + 1]
    /\ UNCHANGED parsed

\* the body of `for field in struct.fields:`. _get_struct_container replaces
\* a field named like a recorded structure (and has no value to return for a
\* field that is neither a Field nor a wrapper); a Field of Range size gets
\* the length field that _find_field_length finds in what `struct` is bound
\* to; for a Field whose size is a name, the search `for struct in
\* self.structs:` rebinds `struct` and leaves it at the last structure.
resolve_field ==
    /\ UNCHANGED notRes
    /\ pos.phase = "fields"
    /\ pos.f <= Len(pos.iter)
    /\ LET field     == pos.iter[pos.f]
           o         == heap[field]
           n         == Len(heap)
           struct    == Named(parsed.structs, o.name)
           kept(b)   == [pos EXCEPT !.f = @ + 1, !.fields = Append(@, field), !.struct = b]
           added(id) == [pos EXCEPT !.f = @ + 1, !.fields = Append(@, id)]
           container(of) == [k |-> "StructContainer", name |-> of.name, size |-> of.size,
                             target |-> struct]
       IN  IF struct # 0
           THEN CASE o.k = "Field" ->
                        /\ heap' = Append(heap, container(o))
                        /\ pos' = added(n + 1)
                  [] o.k \in {"RepeatingField", "OptionalField"} ->
                        /\ heap' = heap \o <<container(heap[o.target]),
                                              [k |-> o.k, name |-> o.name, target |-> n + 1]>>
                        /\ pos' = added(n + 2)
                  [] OTHER ->
                        /\ pos' = [pos EXCEPT !.phase = "UnboundLocalError"]
                        /\ UNCHANGED heap
           ELSE IF o.k = "Field" /\ o.size.k = "Range"
           THEN LET length_field == find_field_length(pos.struct, field)
                IN  /\ heap' = IF length_field # 0
                               THEN [heap EXCEPT ![field].size = Ref(length_field)]
                               ELSE heap
                    /\ pos' = kept(pos.struct)
           ELSE IF o.k = "Field" /\ o.size.k = "str"
           THEN LET s == Named(parsed.structs, o.size.v)
                    e == Named(parsed.enums, o.size.v)
                IN  /\ heap' = [heap EXCEPT ![field].size =
                                   IF s # 0 THEN Ref(s) ELSE IF e # 0 THEN Ref(e) ELSE @]
                    /\ pos' = kept(parsed.structs[Len(parsed.structs)])
           ELSE /\ pos' = kept(pos.struct)
                /\ UNCHANGED heap
    /\ UNCHANGED parsed

\* _traverse_enums, one enum at a time: a value without a type gets the
\* first recorded structure of its name
resolve_enum ==
    /\ UNCHANGED notRes
    /\ pos.phase = "enums"
    /\ IF pos.e <= Len(parsed.enums)
       THEN LET enum   == parsed.enums[pos.e]
                values == heap[enum].values
            IN  /\ heap' = [heap EXCEPT ![enum].values =
                               [j \in 1..Len(values) |->
                                   IF values[j].type = 0
                                   THEN [values[j] EXCEPT
                                            !.type = Named(parsed.structs, values[j].name)]
                                   ELSE values[j]]]
                /\ pos' = [pos EXCEPT !.e = @ + 1]
       ELSE /\ pos' = [pos EXCEPT !.phase = "done"]
            /\ UNCHANGED heap
    /\ UNCHANGED parsed

ResNext == begin_structure \/ resolve_field \/ end_structure \/ resolve_enum

\* ---------------------------------------------------------------------------
\* Lowering (QUICStructureParser), one step of the recursion at a time

\* an activation of _process_structure or _process_enum on the raw object
\* `target`; fields, constraints and variants are its local lists
CallFrame(fn, target) ==
    [fn |-> fn, target |-> target, phase |-> "entry", i |-> 1,
     fields |-> <<>>, constraints |-> <<>>, variants |-> <<>>, result |-> NoneId]

LTop == lstack[Len(lstack)]

SetTop(f) == Append(SubSeq(lstack, 1, Len(lstack) - 1), f)

\* dict.get: the stored object, None when the key is absent
memo_get_miss(memo, name) == NoneId

memo_get(memo, name) == IF name \in DOMAIN memo THEN memo[name] ELSE NoneId

\* the bookkeeping of one normalized structure name: how often its fields
\* were lowered, how often add_type was called with its Struct, which objects
\* the lowering returned for it, and from where it was reached again
NoHist == [lowered |-> 0, added |-> 0, returned |-> {}, via |-> {}]

HistOf(name) == IF name \in DOMAIN lhist THEN lhist[name] ELSE NoHist

\* isinstance(field, npt.parser.TypeContainer): parser.py declares no class
\* of that name; the container class of the raw model is StructContainer
TypeContainer(field) == field.k = "StructContainer"

\* the name of the bit string of a field
bitstring_name(struct, field) ==
    valid_type_name_convertor(struct.name) \o <<"_">> \o valid_field_name_convertor(field.name)

\* _process_field_type for a Field whose size is an int, a Range or None: the
\* new BitString. A Range becomes None when it is open at both ends and the
\* placeholder 8888 otherwise (9999 for the field 'ECN Counts').
ArbitrarySize == 8888
EcnCountsSize == 9999
ECN_Counts == <<"E", "C", "N", " ", "C", "o", "u", "n", "t", "s">>

\* _to_number_expression, _argument_expression, _const_expression
to_number_expression(field_name) ==
    MethodInvocationExpression(FieldAccessExpression(SelfExpression, field_name),
                               "to_number", <<>>)
argument_expression(expression) == ArgumentExpression("other", expression)
const_expression(number) == ConstantExpression(NumberT, number)

\* _get_field_length_expression for a field whose size is a Field: the
\* expression, or None when the registry has no type named after the struct
\* and the length field
get_field_length_expression(struct, field) ==
    LET field_name == valid_field_name_convertor(field.size.name)
        type_name  == valid_type_name_convertor(struct.name) \o <<"_">> \o field_name
    IN  IF type_name \in DOMAIN types THEN to_number_expression(field_name) ELSE NoExpr

\* a raw object left where BitString expects its size expression
RawSize(object) == [e |-> "raw", object |-> object]

process_field_type(self, struct, field) ==
    LET ranged == IF field.name = ECN_Counts THEN IntV(EcnCountsSize)
                  ELSE IF field.size.min = NoneV /\ field.size.max = NoneV THEN NoneV
                  ELSE IntV(ArbitrarySize)
        size   == IF field.size.k = "Range" THEN ranged ELSE field.size
        length == get_field_length_expression(struct, field)
    IN  BitString(self, bitstring_name(struct, field),
                  CASE size.k = "int" -> ConstantExpression(NumberT, size.v)
                    [] size.k = "Field" -> IF length.e # "None" THEN length ELSE RawSize(size)
                    [] size.k = "Structure" -> RawSize(size)
                    [] OTHER -> NoExpr)

\* _process_field_value: the constraints of a field's raw value; the empty
\* list where the code returns None, which _process_structure skips
process_field_value(field_name, value) ==
    CASE value.k = "int" ->
            <<MethodInvocationExpression(to_number_expression(field_name), "eq",
                  <<argument_expression(const_expression(value.v))>>)>>
      [] value.k = "Range" ->
            IF value.max = NoneV THEN <<>>
            ELSE LET minval  == IF value.min = NoneV \/ value.min.v = 0 THEN 0 ELSE value.min.v
                     maxval  == value.max.v
                     ge_expr == MethodInvocationExpression(to_number_expression(field_name),
                                    "ge", <<argument_expression(const_expression(minval))>>)
                     le_expr == MethodInvocationExpression(to_number_expression(field_name),
                                    "le", <<argument_expression(const_expression(maxval))>>)
                 IN  <<MethodInvocationExpression(ge_expr, "and",
                                                  <<argument_expression(le_expr)>>)>>
      [] OTHER -> <<>>

\* Enum.__init__
Enum(self, name, variants) ==
    [RepresentableType("Enum", self, name, NoExpr) EXCEPT !.variants = variants]

LowInit ==
    /\ raw \in RawModels
    /\ structs = <<>>
    /\ enums = <<>>
    /\ lstack = <<>>
    /\ driver = [pass |-> "enums", i |-> 1, status |-> "run"]
    /\ lhist = <<>>

\* no lowering in progress
LowIdle ==
    /\ raw = <<>>
    /\ structs = <<>>
    /\ enums = <<>>
    /\ lstack = <<>>
    /\ driver = <<>>
    /\ lhist = <<>>

\* Protocol() as build_protocol creates it, and the objects it needs
LowRegInit ==
    /\ objs = Append(PrimitiveObjs, BitString(Len(PrimitiveObjs) + 1, DataUnit, NoExpr))
    /\ tlast = NoCall
    /\ types = Put(<<>>, DataUnit,
                   ConstructableType(Len(PrimitiveObjs) + 1, "BitString", DataUnit))
    /\ pname = "Protocol"
    /\ pdus = <<>>
    /\ nextId = 0
    /\ last = [op |-> "init", name |-> None, result |-> "ok"]
    /\ nameSets = 0

\* a call of fn on target: a new activation, or RecursionError when the
\* interpreter's stack is exhausted
push(fn, target) ==
    IF Len(lstack) < MaxDepth
    THEN /\ lstack' = Append(lstack, CallFrame(fn, target))
         /\ UNCHANGED driver
    ELSE /\ driver' = [driver EXCEPT !.status = "RecursionError"]
         /\ UNCHANGED lstack

raise(error) == driver' = [driver EXCEPT !.status = error]

\* process_parsed_representation: the loops over representation.enums and
\* representation.structs, then the loop over representation.pdus, an
\* attribute that ParsedRepresentation does not have
top_level ==
    /\ UNCHANGED notLow
    /\ driver.status = "run"
    /\ lstack = <<>>
    /\ UNCHANGED <<structs, enums, lhist, types, objs>>
    /\ IF driver.pass = "enums"
       THEN IF driver.i <= Len(raw.enums)
            THEN push("_process_enum", raw.enums[driver.i])
            ELSE /\ driver' = [driver EXCEPT !.pass = "structs", !.i = 1]
                 /\ UNCHANGED lstack
       ELSE IF driver.i <= Len(raw.structs)
            THEN push("_process_structure", raw.structs[driver.i])
            ELSE /\ driver' = [driver EXCEPT !.pass = "pdus", !.status = "AttributeError"]
                 /\ UNCHANGED lstack

\* who called the activation on top of the stack
Caller ==
    IF Len(lstack) = 1 THEN "top"
    ELSE IF lstack[Len(lstack) - 1].fn = "_process_structure" THEN "container"
    ELSE "variant"

Running(fn, phase) ==
    /\ driver.status = "run"
    /\ lstack # <<>>
    /\ LTop.fn = fn
    /\ LTop.phase = phase

\* _process_structure: the lookup in self.structs
struct_entry ==
    /\ UNCHANGED notLow
    /\ Running("_process_structure", "entry")
    /\ LET name     == valid_type_name_convertor(RawStructure(LTop.target).name)
           existing == memo_get(structs, name)
       IN  IF existing # NoneId
           THEN /\ lstack' = SetTop([LTop EXCEPT !.phase = "return", !.result = existing])
                /\ lhist' = Put(lhist, name, [HistOf(name) EXCEPT !.via = @ \cup {Caller}])
           ELSE /\ lstack' = SetTop([LTop EXCEPT !.phase = "fields"])
                /\ lhist' = Put(lhist, name, [HistOf(name) EXCEPT !.lowered = @ + 1])
    /\ UNCHANGED <<driver, structs, enums, types, objs>>

\* _traverse_field on a Field: _process_field_type makes the BitString, then
\* StructField(field_name=..., field_type=...) raises TypeError, the dataclass
\* having a third required field, is_present
lower_field ==
    /\ UNCHANGED notLow
    /\ Running("_process_structure", "fields")
    /\ LTop.i <= Len(RawStructure(LTop.target).fields)
    /\ LET struct == RawStructure(LTop.target)
           field  == Unwrapped(struct.fields[LTop.i])
           self   == Len(objs) + 1
       IN  /\ ~ TypeContainer(field)
           /\ field.size.k # "Enum"
           /\ objs' = Append(objs, process_field_type(self, struct, field))
           /\ raise("TypeError")
    /\ UNCHANGED <<lstack, structs, enums, lhist, types>>

\* _traverse_field on a Field whose size is an Enum: _process_field_type
\* calls _process_enum(size)
lower_enum_field ==
    /\ UNCHANGED notLow
    /\ Running("_process_structure", "fields")
    /\ LTop.i <= Len(RawStructure(LTop.target).fields)
    /\ LET field == Unwrapped(RawStructure(LTop.target).fields[LTop.i])
       IN  /\ ~ TypeContainer(field)
           /\ field.size.k = "Enum"
           /\ push("_process_enum", field.size.key)
    /\ UNCHANGED <<structs, enums, lhist, types, objs>>

\* _traverse_field on a container: _process_field_type calls
\* _process_structure(field.target)
lower_container ==
    /\ UNCHANGED notLow
    /\ Running("_process_structure", "fields")
    /\ LTop.i <= Len(RawStructure(LTop.target).fields)
    /\ LET field == Unwrapped(RawStructure(LTop.target).fields[LTop.i])
       IN  /\ TypeContainer(field)
           /\ push("_process_structure", field.target)
    /\ UNCHANGED <<structs, enums, lhist, types, objs>>

\* _process_structure after the loop: Struct(...), self.structs[name],
\* self.proto.add_type
construct_struct ==
    /\ UNCHANGED notLow
    /\ Running("_process_structure", "fields")
    /\ LTop.i > Len(RawStructure(LTop.target).fields)
    /\ LET name == valid_type_name_convertor(RawStructure(LTop.target).name)
           id   == Len(objs) + 1
           r    == Struct(objs, name, LTop.fields, LTop.constraints, <<>>)
       IN  IF r.raised
           THEN /\ raise("ProtocolTypeError")
                /\ UNCHANGED <<lstack, structs, lhist, types, objs>>
           ELSE /\ objs' = r.os
                /\ structs' = Put(structs, name, id)
                /\ lhist' = Put(lhist, name, [HistOf(name) EXCEPT !.added = @ + 1])
                /\ IF check_typename(types, name)
                   THEN /\ raise("ProtocolTypeError")
                        /\ UNCHANGED <<lstack, types>>
                   ELSE /\ types' = Put(types, name, ConstructableType(id, "Struct", name))
                        /\ lstack' = SetTop([LTop EXCEPT !.phase = "return", !.result = id])
                        /\ UNCHANGED driver
    /\ UNCHANGED enums

\* _process_enum: the lookup in self.enums
enum_entry ==
    /\ UNCHANGED notLow
    /\ Running("_process_enum", "entry")
    /\ LET name     == valid_type_name_convertor(RawEnumOf(LTop.target).name)
           existing == memo_get(enums, name)
       IN  IF existing # NoneId
           THEN lstack' = SetTop([LTop EXCEPT !.phase = "return", !.result = existing])
           ELSE lstack' = SetTop([LTop EXCEPT !.phase = "values"])
    /\ UNCHANGED <<driver, structs, enums, lhist, types, objs>>

\* the loop body of _process_enum
enum_value ==
    /\ UNCHANGED notLow
    /\ Running("_process_enum", "values")
    /\ LTop.i <= Len(RawEnumOf(LTop.target).values)
    /\ LET value == RawEnumOf(LTop.target).values[LTop.i]
       IN  IF value.type = NoKey
           THEN /\ raise("ProtocolTypeError")
                /\ UNCHANGED <<lstack, lhist>>
           ELSE LET type_name == valid_type_name_convertor(RawStructure(value.type).name)
                    variant   == memo_get(structs, type_name)
                IN  IF variant # NoneId
                    THEN /\ lstack' = SetTop([LTop EXCEPT !.i = @ + 1,
                                                          !.variants = Append(@, variant)])
                         /\ lhist' = Put(lhist, type_name,
                                [HistOf(type_name) EXCEPT !.via = @ \cup {"variant"},
                                                          !.returned = @ \cup {variant}])
                         /\ UNCHANGED driver
                    ELSE /\ push("_process_structure", value.type)
                         /\ UNCHANGED lhist
    /\ UNCHANGED <<structs, enums, types, objs>>

\* _process_enum after the loop: Enum(...), self.enums[name],
\* self.proto.add_type
construct_enum ==
    /\ UNCHANGED notLow
    /\ Running("_process_enum", "values")
    /\ LTop.i > Len(RawEnumOf(LTop.target).values)
    /\ LET name == valid_type_name_convertor(RawEnumOf(LTop.target).name)
           id   == Len(objs) + 1
       IN  /\ objs' = Append(objs, Enum(id, name, LTop.variants))
           /\ enums' = Put(enums, name, id)
           /\ IF check_typename(types, name)
              THEN /\ raise("ProtocolTypeError")
                   /\ UNCHANGED <<lstack, types>>
              ELSE /\ types' = Put(types, name, ConstructableType(id, "Enum", name))
                   /\ lstack' = SetTop([LTop EXCEPT !.phase = "return", !.result = id])
                   /\ UNCHANGED driver
    /\ UNCHANGED <<structs, lhist>>

\* return processed_struct / existing_struct / processed_enum to the caller:
\* the top-level loop goes on, _process_enum appends the variant, and
\* _process_field, having got the type of the container field, raises
\* TypeError at StructField(field_name=..., field_type=...)
return_result ==
    /\ UNCHANGED notLow
    /\ driver.status = "run"
    /\ lstack # <<>>
    /\ LTop.phase = "return"
    /\ LET r     == LTop.result
           below == SubSeq(lstack, 1, Len(lstack) - 1)
           name  == valid_type_name_convertor(RawStructure(LTop.target).name)
       IN  /\ lhist' = IF LTop.fn = "_process_structure"
                       THEN Put(lhist, name, [HistOf(name) EXCEPT !.returned = @ \cup {r}])
                       ELSE lhist
           /\ IF below = <<>>
              THEN /\ lstack' = <<>>
                   /\ driver' = [driver EXCEPT !.i = @ + 1]
              ELSE LET caller == below[Len(below)]
                   IN  IF caller.fn = "_process_structure"
                       THEN /\ lstack' = below
                            /\ raise("TypeError")
                       ELSE /\ lstack' = Append(SubSeq(below, 1, Len(below) - 1),
                                               [caller EXCEPT !.i = @ + 1,
                                                              !.variants = Append(@, r)])
                            /\ UNCHANGED driver
    /\ UNCHANGED <<structs, enums, types, objs>>

LowNext ==
    \/ top_level
    \/ struct_entry
    \/ lower_field
    \/ lower_container
    \/ lower_enum_field
    \/ construct_struct
    \/ enum_entry
    \/ enum_value
    \/ construct_enum
    \/ return_result

Lowered(key) ==
    /\ HistOf(valid_type_name_convertor(RawStructure(key).name)).lowered > 0
    /\ \/ driver.status # "run"
       \/ \A k \in 1..Len(lstack) :
             ~ (lstack[k].fn = "_process_structure" /\ lstack[k].target = key)

\* the field that a constraint reads
RECURSIVE Subject(_)
Subject(expr) ==
    CASE expr.e = "FieldAccess" -> expr.field_name
      [] expr.e = "MethodInvocation" -> Subject(expr.target)
      [] OTHER -> <<>>

\* the constraints of the lowered Struct `name` that read the field `fname`
ConstraintsAbout(name, fname) ==
    SelectSeq(objs[structs[name]].constraints, LAMBDA c : Subject(c) = fname)

\* C11: once a structure that has a Field of integer size and literal integer
\* value v (0 included) is lowered, its Struct exists and has exactly one
\* constraint on that field, self.<field>.to_number().eq(other = v), whose
\* result type in the Struct is Boolean.
C11_LiteralValueYieldsEq ==
    \A key \in Elems(raw.structs) : \A j \in 1..Len(RawStructure(key).fields) :
        LET field == RawStructure(key).fields[j]
            name  == valid_type_name_convertor(RawStructure(key).name)
            fname == valid_field_name_convertor(field.name)
        IN  (field.k = "Field" /\ field.size.k = "int" /\ field.value.k = "int"
                /\ Lowered(key)) =>
                /\ name \in DOMAIN structs
                /\ ConstraintsAbout(name, fname) =
                      << MethodInvocationExpression(
                             MethodInvocationExpression(
                                 FieldAccessExpression(SelfExpression, fname),
                                 "to_number", <<>>),
                             "eq",
                             <<ArgumentExpression("other",
                                   ConstantExpression(NumberT, field.value.v))>>) >>
                /\ result_type(objs, ConstraintsAbout(name, fname)[1], structs[name]) = BooleanT

\* C12: once a structure is lowered, its Struct exists and the constraints on
\* a Field come from the field's raw value alone: a value Range(min, max)
\* with max known gives exactly the one constraint
\* self.<field>.to_number().ge(other = min or 0).and(other =
\* self.<field>.to_number().le(other = max)); a value Range without max and
\* no value give none, whatever the field's size is (a Range with a known max
\* included).
C12_RangeValueYieldsBounds ==
    \A key \in Elems(raw.structs) : \A j \in 1..Len(RawStructure(key).fields) :
        LET field == RawStructure(key).fields[j]
            name  == valid_type_name_convertor(RawStructure(key).name)
            fname == valid_field_name_convertor(field.name)
            self  == MethodInvocationExpression(
                         FieldAccessExpression(SelfExpression, fname), "to_number", <<>>)
            bound(op, n) ==
                MethodInvocationExpression(self, op,
                    <<ArgumentExpression("other", ConstantExpression(NumberT, n))>>)
        IN  (field.k = "Field" /\ field.size.k \in {"int", "Range"}
                /\ field.value.k \in {"Range", "None"} /\ Lowered(key)) =>
                /\ name \in DOMAIN structs
                /\ ConstraintsAbout(name, fname) =
                      IF field.value.k = "Range" /\ field.value.max # NoneV
                      THEN << MethodInvocationExpression(
                                  bound("ge", IF field.value.min = NoneV THEN 0
                                              ELSE field.value.min.v),
                                  "and",
                                  <<ArgumentExpression("other",
                                        bound("le", field.value.max.v))>>) >>
                      ELSE <<>>

\* C13: the lowering of an Enum one of whose values has no type never returns
\* an Enum: when the loop comes to that value the run ends with
\* ProtocolTypeError; until then no value was left out of the variants; and
\* no Enum that is registered or memoized has fewer variants than a raw enum of
\* its name has values.
C13_UntypedVariantIsFatal ==
    /\ \A k \in 1..Len(lstack) :
          LET f      == lstack[k]
              values == RawEnumOf(f.target).values
          IN  f.fn = "_process_enum" =>
                /\ (\E i \in 1..Len(values) : values[i].type = NoKey) => f.phase # "return"
                /\ f.phase = "values" => Len(f.variants) = f.i - 1
                /\ (f.phase = "values" /\ k = Len(lstack) /\ driver.status # "run"
                       /\ f.i <= Len(values) /\ values[f.i].type = NoKey) =>
                       driver.status = "ProtocolTypeError"
    /\ \A e \in Elems(raw.enums) :
          LET name == valid_type_name_convertor(RawEnumOf(e).name)
          IN  /\ name \in DOMAIN enums =>
                    Len(objs[enums[name]].variants) >= Len(RawEnumOf(e).values)
              /\ (name \in DOMAIN types /\ types[name].kind = "Enum") =>
                    Len(objs[types[name].id].variants) >= Len(RawEnumOf(e).values)

\* the position of the first occurrence of x in seq, 0 when there is none
First(seq, x) ==
    IF \E i \in 1..Len(seq) : seq[i] = x
    THEN CHOOSE i \in 1..Len(seq) : seq[i] = x /\ \A j \in 1..(i - 1) : seq[j] # x
    ELSE 0

\* C14: once process_parsed_representation is through the enums and the
\* structures of the representation it completes without error, every one of
\* them is registered under its normalized name, that name is a PDU name, and
\* the PDU names of the structures (of the enums) stand in the order in which
\* the structures (the enums) were first seen.
C14_TopLevelTypesArePdus ==
    driver.pass = "pdus" =>
        /\ driver.status = "done"
        /\ \A kind \in {"structs", "enums"} :
              LET name(i) == valid_type_name_convertor(
                                 IF kind = "structs" THEN RawStructure(raw.structs[i]).name
                                 ELSE RawEnumOf(raw.enums[i]).name)
              IN  \A i \in 1..Len(raw[kind]) :
                      /\ name(i) \in DOMAIN types
                      /\ First(pdus, name(i)) > 0
                      /\ \A j \in 1..(i - 1) : First(pdus, name(j)) <= First(pdus, name(i))

C16_NamedSizeBoundToLengthSibling ==
    pos.phase = "done" =>
        \A i \in 1..Len(parsed.keys) :
            parsed.keys[i] = "PI" =>
                LET fields == heap[parsed.structs[i]].fields
                IN  /\ Len(fields) = 2
                    /\ heap[fields[1]].k = "Field" /\ heap[fields[1]].name = Name_A
                    /\ heap[fields[2]].k = "Field" /\ heap[fields[2]].name = Name_A_Length
                    /\ heap[fields[1]].size.k = "ref"
                    /\ heap[fields[1]].size.id = fields[2]

\* C17: phase 2 completes, and after it every recorded structure has its
\* fields in their recorded order, each field named like a recorded Structure
\* replaced by a StructContainer of the first Structure of that name, inside
\* its RepeatingField or OptionalField when it had one.
C17_NamedFieldsBecomeContainers ==
    /\ pos.phase # "UnboundLocalError"
    /\ pos.phase = "done" =>
        \A i \in 1..Len(parsed.keys) :
            LET original == ParsedStructure(parsed.keys[i]).fields
                fields   == heap[parsed.structs[i]].fields
            IN  /\ Len(fields) = Len(original)
                /\ \A j \in 1..Len(original) :
                      LET o      == heap[fields[j]]
                          struct == Named(parsed.structs, original[j].name)
                      IN  struct # 0 =>
                              IF original[j].k = "Field"
                              THEN o.k = "StructContainer" /\ o.target = struct
                              ELSE /\ o.k = original[j].k
                                   /\ heap[o.target].k = "StructContainer"
                                   /\ heap[o.target].target = struct

\* C28: phase 2 keeps every structure's own field list: once it is over, each
\* recorded Structure has as many fields as phase 1 gave it, with the same
\* names in the same order (a field is replaced by its container or gets its
\* size rebound, nothing else), also when a field's size is a bare name.
C28_OwnFieldListKept ==
    pos.phase = "done" =>
        \A i \in 1..Len(parsed.keys) :
            LET original == ParsedStructure(parsed.keys[i]).fields
                fields   == heap[parsed.structs[i]].fields
            IN  /\ Len(fields) = Len(original)
                /\ \A j \in 1..Len(original) :
                      heap[fields[j]].name = original[j].name

\* C19: a step of phase 2 gives a Field another Field as its size only if the
\* size was a Range open at one end at least, both Fields are in the field
\* list of the structure being traversed, and the lower-case name of the new
\* size contains the lower-case name of the Field and ends with " length".
C19_LengthSiblingRule ==
    [][\A id \in DOMAIN heap :
          LET sized(h) == h[id].k = "Field" /\ h[id].size.k = "ref"
                              /\ h[h[id].size.id].k = "Field"
              sibling  == heap'[id].size.id
              own      == heap[parsed.structs[pos.s]].fields
              name     == LowerCase(heap[sibling].name)
              suffix   == <<" ", "l", "e", "n", "g", "t", "h">>
          IN  (sized(heap') /\ ~ sized(heap)) =>
                  /\ heap[id].size.k = "Range"
                  /\ heap[id].size.min = NoneV \/ heap[id].size.max = NoneV
                  /\ sibling # id
                  /\ id \in Elems(own) /\ sibling \in Elems(own)
                  /\ Contains(name, LowerCase(heap[id].name))
                  /\ Len(name) >= Len(suffix)
                  /\ SubSeq(name, Len(name) - Len(suffix) + 1, Len(name)) = suffix]_vars

C21_ReferencedTypeIsFieldType ==
    \A key \in Elems(raw.structs) : \A j \in 1..Len(RawStructure(key).fields) :
        LET struct == RawStructure(key)
            field  == Unwrapped(struct.fields[j])
            name   == valid_type_name_convertor(struct.name)
            fname  == valid_field_name_convertor(field.name)
            referenced ==
                IF TypeContainer(field)
                THEN memo_get(structs, valid_type_name_convertor(RawStructure(field.target).name))
                ELSE IF field.size.k = "Structure"
                THEN memo_get(structs,
                              valid_type_name_convertor(RawStructure(field.size.key).name))
                ELSE memo_get(enums, valid_type_name_convertor(RawEnumOf(field.size.key).name))
        IN  ((TypeContainer(field) \/ field.size.k \in {"Structure", "Enum"})
                /\ Lowered(key)) =>
                /\ name \in DOMAIN structs
                /\ referenced # NoneId
                /\ HasField(objs[structs[name]], fname)
                /\ FieldOf(objs[structs[name]], fname).field_type = referenced
                /\ \A i \in 1..Len(objs) :
                      ~ (objs[i].kind = "BitString"
                            /\ objs[i].name = bitstring_name(struct, field))

\* C22: once a structure is lowered that has a Field whose size is a sibling
\* length field L, its Struct exists and the type of that field is a
\* BitString whose size is self.<L>.to_number() if L comes before the field
\* in the structure, and is not that expression otherwise; and no BitString
\* is ever made with that size for a field whose L does not come before it.
C22_LengthExpressionNeedsLoweredSibling ==
    \A key \in Elems(raw.structs) : \A j \in 1..Len(RawStructure(key).fields) :
        LET struct   == RawStructure(key)
            field    == struct.fields[j]
            name     == valid_type_name_convertor(struct.name)
            fname    == valid_field_name_convertor(field.name)
            length   == to_number_expression(valid_field_name_convertor(field.size.name))
            precedes == \E i \in 1..(j - 1) : struct.fields[i] = field.size
        IN  (field.k = "Field" /\ field.size.k = "Field") =>
                /\ Lowered(key) =>
                      /\ name \in DOMAIN structs
                      /\ HasField(objs[structs[name]], fname)
                      /\ LET type == objs[FieldOf(objs[structs[name]], fname).field_type]
                         IN  /\ type.kind = "BitString"
                             /\ (type.size = length) <=> precedes
                /\ \A i \in 1..Len(objs) :
                      (objs[i].kind = "BitString"
                          /\ objs[i].name = bitstring_name(struct, field)
                          /\ objs[i].size = length) => precedes

\* C23: the top-level loops never get past a raw enum, or a raw structure,
\* that comes after another one of the same normalized name and different
\* contents: the run has ended with an error by then.
C23_DivergentDuplicateRejected ==
    /\ \A i, j \in 1..Len(raw.enums) :
          LET a == RawEnumOf(raw.enums[i])
              b == RawEnumOf(raw.enums[j])
          IN  (/\ i < j
               /\ valid_type_name_convertor(a.name) = valid_type_name_convertor(b.name)
               /\ a.values # b.values) =>
                  ~ (driver.pass # "enums" \/ driver.i > j)
    /\ \A i, j \in 1..Len(raw.structs) :
          LET a == RawStructure(raw.structs[i])
              b == RawStructure(raw.structs[j])
          IN  (/\ i < j
               /\ valid_type_name_convertor(a.name) = valid_type_name_convertor(b.name)
               /\ a.fields # b.fields) =>
                  ~ (driver.pass = "pdus" \/ (driver.pass = "structs" /\ driver.i > j))

\* the concatenation of a list of lists, and `a` is an initial part of `b`
RECURSIVE Concat(_)
Concat(lists) == IF lists = <<>> THEN <<>> ELSE Head(lists) \o Concat(Tail(lists))

Prefix(a, b) == Len(a) <= Len(b) /\ SubSeq(b, 1, Len(a)) = a

\* the artwork blocks of a section in depth-first document order, each with
\* its place: those of the section's own figures, then those of its
\* sub-sections, one sub-section after the other
RECURSIVE SectionBlocks(_, _)
SectionBlocks(section, path) ==
    LET figure(c) ==
            [a \in 1..Len(section.content[c].content) |->
                [at |-> <<path, c, a>>, block |-> section.content[c].content[a]]]
        own ==
            Concat([c \in 1..Len(section.content) |->
                       IF section.content[c].k = "Figure"
                       THEN SelectSeq(figure(c), LAMBDA b : b.block.k = "Artwork")
                       ELSE <<>>])
        below ==
            IF section.sections.k = "list"
            THEN Concat([i \in 1..Len(section.sections.v) |->
                            SectionBlocks(section.sections.v[i], Append(path, i))])
            ELSE <<>>
    IN  own \o below

DocBlocks == Concat([i \in 1..Len(doc) |-> SectionBlocks(doc[i], <<i>>)])

\* a block is a structure, or else an enum, when its content is text that
\* the production matches
IsStructure(b) ==
    b.block.content.k = "Text" /\ grammar_structure(b.block.content.content).k # "raises"
IsEnum(b) ==
    /\ b.block.content.k = "Text" /\ ~ IsStructure(b)
    /\ grammar_enum(b.block.content.content).k # "raises"

\* C18: the parse attempts of phase 1 are, block after block in depth-first
\* document order, the structure production and then, only if that failed,
\* the enum production; at any time the struct and enum lists hold, in that
\* order, the blocks matched so far, and when the walk is over they hold all
\* the blocks that match, the blocks that match neither being left out.
C18_BlocksInDocumentOrder ==
    LET attempts(b) ==
            IF b.block.content.k # "Text" THEN <<>>
            ELSE IF IsStructure(b) THEN <<[at |-> b.at, production |-> "structure"]>>
            ELSE <<[at |-> b.at, production |-> "structure"],
                   [at |-> b.at, production |-> "enum"]>>
        found(b)  == [text |-> b.block.content.content, at |-> b.at]
        tried     == Concat([i \in 1..Len(DocBlocks) |-> attempts(DocBlocks[i])])
        matched(Is(_)) ==
            LET hits == SelectSeq(DocBlocks, Is)
            IN  [i \in 1..Len(hits) |-> found(hits[i])]
    IN  /\ Prefix(walk.tried, tried)
        /\ Prefix(walk.structs, matched(IsStructure))
        /\ Prefix(walk.enums, matched(IsEnum))
        /\ walk.done => /\ walk.tried = tried
                        /\ walk.structs = matched(IsStructure)
                        /\ walk.enums = matched(IsEnum)

\* the walk is over on a document of two sections, the first with
\* sub-sections; structures and enums were found at both depths, and a block
\* that matches neither production was tried with both and left out
C18_Witness ==
    /\ walk.done
    /\ Len(doc) = 2
    /\ doc[1].sections.k = "list" /\ doc[1].sections.v # <<>>
    /\ \E i, j \in 1..Len(walk.structs) : Len(walk.structs[i].at[1]) < Len(walk.structs[j].at[1])
    /\ \E i, j \in 1..Len(walk.enums) : Len(walk.enums[i].at[1]) < Len(walk.enums[j].at[1])
    /\ \E i \in 1..(Len(walk.tried) - 1) :
          /\ walk.tried[i].production = "structure"
          /\ walk.tried[i + 1] = [at |-> walk.tried[i].at, production |-> "enum"]
          /\ \A k \in 1..Len(walk.structs) : walk.structs[k].at # walk.tried[i].at
          /\ \A k \in 1..Len(walk.enums) : walk.enums[k].at # walk.tried[i].at

\* ---------------------------------------------------------------------------
\* Specifications

\* the Protocol registry
Init == RegInit /\ TyIdle /\ DerIdle /\ SingIdle /\ LowIdle /\ NameIdle /\ ExtIdle /\ ResIdle
Next == RegNext
Spec == Init /\ [][Next]_vars

\* the type system
InitTypes == RegIdle /\ TyInit /\ DerIdle /\ SingIdle /\ LowIdle /\ NameIdle /\ ExtIdle /\ ResIdle
SpecTypes == InitTypes /\ [][TyNext]_vars

\* Struct construction and growth
InitStruct == RegIdle /\ StructInit /\ DerIdle /\ SingIdle /\ LowIdle /\ NameIdle /\ ExtIdle /\ ResIdle
SpecStruct == InitStruct /\ [][StructNext]_vars

\* method invocation over the type system
SpecInvoke == InitTypes /\ [][InvokeNext]_vars

\* construction of the singletons
InitSingleton == RegIdle /\ TyIdle /\ DerIdle /\ SingInit /\ LowIdle /\ NameIdle /\ ExtIdle /\ ResIdle
SpecSingleton == InitSingleton /\ [][SingNext]_vars

\* normalization of names
InitNames == RegIdle /\ TyIdle /\ DerIdle /\ SingIdle /\ LowIdle /\ NameInit /\ ExtIdle /\ ResIdle
SpecNames == InitNames /\ [][NameNext]_vars

\* phase 2 of the extraction
InitResolve == RegIdle /\ TyIdle /\ DerIdle /\ SingIdle /\ LowIdle /\ NameIdle /\ ExtIdle /\ ResInit
SpecResolve == InitResolve /\ [][ResNext]_vars

\* phase 1 of the extraction
InitExtract == RegIdle /\ TyIdle /\ DerIdle /\ SingIdle /\ LowIdle /\ NameIdle /\ ExtInit /\ ResIdle
SpecExtract == InitExtract /\ [][ExtNext]_vars

\* derive_from and implement_trait over types that share trait lists
InitDerive == RegIdle /\ DerInit /\ SingIdle /\ LowIdle /\ NameIdle /\ ExtIdle /\ ResIdle
SpecDerive == InitDerive /\ [][DerNext]_vars

\* the singleton constructors called from two threads
InitThreads == RegIdle /\ TyIdle /\ DerIdle /\ ThreadInit /\ LowIdle /\ NameIdle /\ ExtIdle /\ ResIdle
SpecThreads == InitThreads /\ [][ThreadNext]_vars

\* lowering of a resolved raw model into a fresh Protocol
InitLower == LowRegInit /\ DerIdle /\ SingIdle /\ LowInit /\ NameIdle /\ ExtIdle /\ ResIdle
SpecLower == InitLower /\ [][LowNext]_vars

====
